---- MODULE Spec2Model ----
(***************************************************************************)
(* AuthSnap: the OAuth callback orchestration (route-handler.js) behind    *)
(* the adapters' routes, the session manager (session-manager.js), the     *)
(* protect middleware (middleware/protect.js), the token store and the     *)
(* token refresher, as state machines.                                     *)
(*                                                                         *)
(* JavaScript values.  A string that the code only compares is a TLA+      *)
(* string.  A string that the code takes apart (a redirect target, an      *)
(* allow-list entry) is a sequence of lexemes: "https://good.com/" is      *)
(* <<"https:", "/", "/", "good.com", "/">>.  The lexemes form a prefix     *)
(* code, so two sequences are equal exactly when the strings are.  An      *)
(* object is a function from property names to values; a property that is *)
(* not in its domain reads as undefined.                                   *)
(***************************************************************************)
EXTENDS Integers, Sequences, FiniteSets, TLC

VARIABLES
    config,      \* AuthSnap.config: allowedRedirects and the callbacks that are set
    cb,          \* per callback request: the adapter route running handleCallback
    tokenStore,  \* TokenStore._store: key -> TokenSet with storedAt
    now,         \* the clock, in ticks (a fraction of a second) since the epoch
    session,     \* the session cookie the browser holds (a JWT), or NoToken
    minted,      \* the arguments of the createToken call that made that token
    call,        \* the call in progress (SessionManager, protect, login, logout)
    links,       \* InMemoryLinkStore: the forward map and the reverse index
    rf,          \* the getValidTokens / forceRefresh call in flight, if any
    jar,         \* the browser's session cookie: never set, set, or cleared
    limiter,     \* createRateLimiter: its options, its Map, and the calls made
    redis,       \* the Redis server behind a RedisTokenStore: key -> data and expiry
    twitter,     \* a TwitterProvider instance (_lastState) and the logins through it
    emitter      \* AuthSnap._emitter: event -> the listeners subscribed, in order

vars == <<config, cb, tokenStore, now, session, minted, call, links, rf, jar,
          limiter, redis, twitter, emitter>>

----------------------------------------------------------------------------
(* Bounds of the model *)

\* Longest redirect target a hook returns, in lexemes.
MaxTargetLen == 3
\* Last second of the clock.
MaxTime == 3
\* Largest session lifetime (config.session.maxAge), in seconds.
MaxLifetime == 2

----------------------------------------------------------------------------
(* JavaScript values *)

Undefined == "<undefined>"
Null == "<null>"

\* !v for the strings the handlers test (undefined, null and '' are falsy).
Falsy(v) == v \in {Undefined, Null, ""}

EmptyObj == [k \in {} |-> Undefined]

\* obj.k
Get(obj, k) == IF k \in DOMAIN obj THEN obj[k] ELSE Undefined

Has(obj, k) == k \in DOMAIN obj

----------------------------------------------------------------------------
(* Strings as lexeme sequences, and the WHATWG URL parser behind new URL() *)

SpecialSchemes == {"http:", "https:", "HTTPS:"}
SchemeLexemes == SpecialSchemes \cup {"js:"}
HostLexemes == {"good.com", "evil.com"}
Slash == "/"
Lexemes == {Slash} \cup SchemeLexemes \cup HostLexemes

\* s.startsWith(p)
startsWith(s, p) == Len(s) >= Len(p) /\ SubSeq(s, 1, Len(p)) = p

\* ASCII lower-casing of a scheme or host lexeme.
Lower(x) == IF x = "HTTPS:" THEN "https:" ELSE x

\* A scheme lexeme read as a host label followed by the port separator.
StripColon(x) ==
    CASE x = "http:" -> "http"
      [] x = "https:" -> "https"
      [] x = "HTTPS:" -> "https"
      [] x = "js:" -> "js"
      [] OTHER -> x

\* Index of the first lexeme of s, from position i on, that is in S; Len(s)+1 if none.
RECURSIVE FirstIn(_, _, _)
FirstIn(s, i, S) ==
    IF i > Len(s) THEN Len(s) + 1
    ELSE IF s[i] \in S THEN i
    ELSE FirstIn(s, i + 1, S)

\* Index of the first lexeme of s, from position i on, that is not a slash.
RECURSIVE SkipSlashes(_, _)
SkipSlashes(s, i) ==
    IF i <= Len(s) /\ s[i] = Slash THEN SkipSlashes(s, i + 1) ELSE i

ParseFailure == [ok |-> FALSE, origin |-> <<>>]

\* The authority s[i..j-1] (up to the next slash): a host, then an optional
\* port separator that nothing but the end of the authority may follow (the
\* model has no digits, so a non-empty port is an invalid port).
Authority(s, i, j) ==
    LET c == FirstIn(s, i, SchemeLexemes)
        last == IF c < j THEN c ELSE j - 1
    IN  [ok |-> (c < j => c = j - 1),
         host |-> [n \in 1..(last - i + 1) |->
                     IF i + n - 1 = c THEN StripColon(s[c]) ELSE Lower(s[i + n - 1])]]

\* new URL(s) with no base: whether it parses, and url.origin.
ParseURL(s) ==
    LET k == FirstIn(s, 1, SchemeLexemes \cup {Slash})
    IN  IF k > Len(s) \/ s[k] = Slash
        THEN ParseFailure                       \* no scheme: a relative reference
        ELSE IF k = 1 /\ s[1] \in SpecialSchemes
        THEN LET i == SkipSlashes(s, 2)
                 j == FirstIn(s, i, {Slash})
                 a == Authority(s, i, j)
             IN  IF i = j \/ ~a.ok
                 THEN ParseFailure              \* empty host or invalid port
                 ELSE [ok |-> TRUE,
                       origin |-> <<Lower(s[1]), Slash, Slash>> \o a.host]
        ELSE IF startsWith(SubSeq(s, k + 1, Len(s)), <<Slash, Slash>>)
        THEN LET j == FirstIn(s, k + 3, {Slash})
                 a == Authority(s, k + 3, j)
             IN  IF ~a.ok
                 THEN ParseFailure
                 ELSE [ok |-> TRUE, origin |-> <<"null">>]
        ELSE [ok |-> TRUE, origin |-> <<"null">>]   \* opaque path, opaque origin

----------------------------------------------------------------------------
(* Redirect safety (route-handler.js) *)

Root == <<Slash>>

\* allowedRedirects: undefined, or an array of strings.
NoAllowList == [set |-> FALSE, list |-> <<>>]
AllowList(l) == [set |-> TRUE, list |-> l]

Range(f) == {f[x] : x \in DOMAIN f}

\* validateRedirect with the origin comparison left out (exact strings only).
validateRedirect_exactOnly(redirect, allowedRedirects) ==
    IF startsWith(redirect, <<Slash>>) /\ ~startsWith(redirect, <<Slash, Slash>>)
    THEN redirect
    ELSE IF ~allowedRedirects.set \/ Len(allowedRedirects.list) = 0
    THEN IF \/ startsWith(redirect, <<"http:", Slash, Slash>>)
            \/ startsWith(redirect, <<"https:", Slash, Slash>>)
            \/ startsWith(redirect, <<Slash, Slash>>)
         THEN Root
         ELSE redirect
    ELSE IF ~ParseURL(redirect).ok
    THEN redirect
    ELSE IF \E allowed \in Range(allowedRedirects.list) : redirect = allowed
    THEN redirect
    ELSE Root

\* validateRedirect that blocks https:// but not http:// without an allow-list.
validateRedirect_httpsOnly(redirect, allowedRedirects) ==
    IF startsWith(redirect, <<Slash>>) /\ ~startsWith(redirect, <<Slash, Slash>>)
    THEN redirect
    ELSE IF ~allowedRedirects.set \/ Len(allowedRedirects.list) = 0
    THEN IF \/ startsWith(redirect, <<"https:", Slash, Slash>>)
            \/ startsWith(redirect, <<Slash, Slash>>)
         THEN Root
         ELSE redirect
    ELSE LET url == ParseURL(redirect)
         IN  IF ~url.ok
             THEN redirect
             ELSE IF \E allowed \in Range(allowedRedirects.list) :
                        redirect = allowed \/ url.origin = allowed
             THEN redirect
             ELSE Root

validateRedirect(redirect, allowedRedirects) ==
    IF startsWith(redirect, <<Slash>>) /\ ~startsWith(redirect, <<Slash, Slash>>)
    THEN redirect
    ELSE IF ~allowedRedirects.set \/ Len(allowedRedirects.list) = 0
    THEN IF \/ startsWith(redirect, <<"http:", Slash, Slash>>)
            \/ startsWith(redirect, <<"https:", Slash, Slash>>)
            \/ startsWith(redirect, <<Slash, Slash>>)
         THEN Root
         ELSE redirect
    ELSE LET url == ParseURL(redirect)
         IN  IF ~url.ok
             THEN redirect
             ELSE IF \E allowed \in Range(allowedRedirects.list) :
                        redirect = allowed \/ url.origin = allowed
             THEN redirect
             ELSE Root

----------------------------------------------------------------------------
(* Session tokens (session-manager.js, over jose's HS256 JWTs) *)

\* The clock ticks TicksPerSecond times a second; jose reads it as
\* Math.floor(date.getTime() / 1000), whole seconds.
TicksPerSecond == 2
epoch(t) == t \div TicksPerSecond

Issuer == "authsnap"

\* HMAC-SHA256 as an ideal MAC: the tag of a message under a key is a value
\* that no other key and no other message yields.
HS256(secret, header, payload) == [key |-> secret, hdr |-> header, msg |-> payload]

\* JSON.stringify followed by JSON.parse: a property whose value is undefined
\* is dropped; strings, null, booleans, arrays and nested objects are kept.
JSONRoundTrip(obj) ==
    [k \in {x \in DOMAIN obj : obj[x] # Undefined} |-> obj[k]]

\* A compact JWS, by segment.  form "garbage" is a string that is not three
\* dot-separated base64url segments.
JWS(header, payload, sig) ==
    [form |-> "jws", header |-> header, payload |-> payload, sig |-> sig]

NoToken == [form |-> "none"]
GarbageToken == [form |-> "garbage"]

\* Only the roles are copied; the permissions are dropped.
RbacClaims_rolesOnly(extra) ==
    [k \in {x \in {"roles"} : Has(extra, x)} |-> extra[k]]

\* extra.roles / extra.permissions copied when truthy (an array always is).
RbacClaims(extra) ==
    [k \in {x \in {"roles", "permissions"} : Has(extra, x)} |-> extra[k]]

\* A createToken that signs the user alone and leaves extra out.
createToken_userOnly(secret, maxAge, user, extra, t) ==
    LET payload == ("user" :> JSONRoundTrip(user))
                   @@ ("iat" :> t) @@ ("exp" :> t + maxAge) @@ ("iss" :> Issuer)
        header == [alg |-> "HS256"]
    IN  JWS(header, payload, HS256(secret, header, payload))

\* SessionManager.createToken for a manager with the given secret and maxAge,
\* called at time t.
createToken(secret, maxAge, user, extra, t) ==
    LET payload == ("user" :> JSONRoundTrip(user)) @@ RbacClaims(extra)
                   @@ ("iat" :> t) @@ ("exp" :> t + maxAge) @@ ("iss" :> Issuer)
        header == [alg |-> "HS256"]
    IN  JWS(header, payload, HS256(secret, header, payload))

\* jwtVerify that decodes the token without checking its signature.
jwtVerify_noSignature(token, secret, t) ==
    IF token.form # "jws" THEN "Invalid Compact JWS"
    ELSE IF Get(token.payload, "iss") # Issuer
    THEN "unexpected \"iss\" claim value"
    ELSE IF Has(token.payload, "exp") /\ token.payload["exp"] <= t
    THEN "\"exp\" claim timestamp check failed"
    ELSE "ok"

\* jwtVerify whose expiry test is now > exp: the token still verifies during
\* the second it expires in.
jwtVerify_expStrict(token, secret, t) ==
    IF token.form # "jws" THEN "Invalid Compact JWS"
    ELSE IF token.sig # HS256(secret, token.header, token.payload)
    THEN "signature verification failed"
    ELSE IF Get(token.payload, "iss") # Issuer
    THEN "unexpected \"iss\" claim value"
    ELSE IF Has(token.payload, "exp") /\ token.payload["exp"] < t
    THEN "\"exp\" claim timestamp check failed"
    ELSE "ok"

\* jose.jwtVerify(token, secret, {issuer: 'authsnap'}) at time t: the cause of
\* the failure, or "ok".
jwtVerify(token, secret, t) ==
    IF token.form # "jws" THEN "Invalid Compact JWS"
    ELSE IF token.sig # HS256(secret, token.header, token.payload)
    THEN "signature verification failed"
    ELSE IF Get(token.payload, "iss") # Issuer
    THEN "unexpected \"iss\" claim value"
    ELSE IF Has(token.payload, "exp") /\ token.payload["exp"] <= t
    THEN "\"exp\" claim timestamp check failed"
    ELSE "ok"

SessionError(message) ==
    [name |-> "SessionError", code |-> "SESSION_ERROR", statusCode |-> 401,
     message |-> message]

\* SessionManager.verifyToken: the user with roles/permissions reattached, or
\* the SessionError thrown.
verifyToken(token, secret, t) ==
    LET cause == jwtVerify(token, secret, t)
    IN  IF cause # "ok"
        THEN [ok |-> FALSE, user |-> EmptyObj,
              error |-> SessionError(<<"Invalid or expired session: ", cause>>)]
        ELSE [ok |-> TRUE,
              user |-> RbacClaims(token.payload) @@ token.payload["user"],
              error |-> EmptyObj]

\* SessionManager.buildCookieHeader
buildCookieHeader(cookieName, maxAge, secure, token) ==
    [name |-> cookieName, value |-> token, maxAge |-> maxAge, path |-> "/",
     httpOnly |-> TRUE, sameSite |-> "Lax", secure |-> secure]

----------------------------------------------------------------------------
(* Configuration and inputs *)

\* The providers configured: one that fetches the profile from a userinfo
\* endpoint, and Apple, whose profile is in the id_token of the exchange.
Providers == {"google", "apple"}
Reqs == {"r1"}

\* config.session: the secret of this AuthSnap's SessionManager, the cookie.
Secret == "secret-A"
CookieName == "authsnap_session"
BasePath == <<Slash, "auth">>

GoodOrigin == <<"https:", Slash, Slash, "good.com">>
DeepLink == <<"js:", "good.com">>
AllowLists ==
    {NoAllowList, AllowList(<<>>), AllowList(<<GoodOrigin>>),
     AllowList(<<GoodOrigin, DeepLink>>)}

\* Every string of at most MaxTargetLen lexemes.
Targets == UNION {[1..n -> Lexemes] : n \in 0..MaxTargetLen}

\* The state and code query parameters and the state cookie, as the adapter
\* reads them.
StateParams == {Undefined, "", "s1"}
StoredStates == {Undefined, "", "s1", "s2"}
CodeParams == {Undefined, "", "c1"}

AuthUser(id, name, avatar) ==
    [id |-> id, email |-> "a@b.com", name |-> name, avatar |-> avatar,
     provider |-> "google", emailVerified |-> "true", raw |-> "{}"]
\* Profiles a provider returns; github's name is raw.name || raw.login, which
\* is undefined when the vendor sends neither.
Users == {AuthUser("u1", "Ann", Null), AuthUser("u2", Undefined, "https://cdn/a.png")}

TokenSet(access, refresh, expiresAt) ==
    [accessToken |-> access, refreshToken |-> refresh, expiresAt |-> expiresAt,
     tokenType |-> "Bearer", scope |-> Null]
\* expiresAt is a time in ticks; 0 stands for null (no expires_in sent), which
\* the code tests the same way (!tokens.expiresAt).
ExchangeTokenSets ==
    {TokenSet("at1", "rt1", 3), TokenSet("at2", Null, 3), TokenSet("at3", "rt3", 0)}

RoleLists == {<<"admin">>, <<"viewer", "editor">>, <<>>}
PermissionLists == {<<"write:posts">>, <<>>}

\* A set holding at most one value: an optional property.
Opt(S) == {{}} \cup {{x} : x \in S}
Prop(k, opt) == IF opt = {} THEN EmptyObj ELSE (k :> CHOOSE v \in opt : TRUE)

\* What an onSuccess hook resolves to: nothing, a redirect, roles and
\* permissions, or both.
OnSuccessResults ==
    {Prop("redirect", r) : r \in Opt(Targets)}
    \cup {Prop("roles", ro) @@ Prop("permissions", pe) @@ Prop("redirect", r) :
            ro \in Opt(RoleLists), pe \in Opt(PermissionLists),
            r \in Opt({<<Slash, "home">>})}
\* What an onError hook returns.
OnErrorResults == {Prop("redirect", r) : r \in Opt(Targets)}

----------------------------------------------------------------------------
(* Errors *)

Error(message) == [name |-> "Error", message |-> message]
CsrfError == Error("Invalid state parameter - possible CSRF attack")
NoCodeError == Error("No authorization code received from provider")
ProviderError(what) == [name |-> "ProviderError", message |-> what]
HookError == Error("thrown by a hook")
ListenerError == Error("thrown by a listener")
AppleNoIdToken ==
    ProviderError("Apple requires an id_token for profile data. Pass it via extra.idToken.")
NoError == EmptyObj

----------------------------------------------------------------------------
(* Token Store (token-store.js) *)

\* TokenStore.key
Key(provider, userId) == <<provider, ":", userId>>

\* A set that merges into the entry and keeps the fields already there.
StoreSet_merge(store, key, tokens, t) ==
    store @@ (key :> (("storedAt" :> t) @@ tokens))

\* TokenStore.set: a full replacement, stamped with the time of the write.
StoreSet(store, key, tokens, t) ==
    (key :> (("storedAt" :> t) @@ tokens)) @@ store

\* TokenStore.get: the entry, or null (NoEntry).
NoEntry == EmptyObj
StoreGet(store, key) == IF key \in DOMAIN store THEN store[key] ELSE NoEntry

----------------------------------------------------------------------------
(* Events (AuthSnap.emit) *)

\* EventEmitter.emit(event, data) with the listeners subscribed: it throws
\* when a listener throws, and for 'error' when nobody listens.
emitterThrows(listeners, event) ==
    listeners = "throws" \/ (event = "error" /\ listeners = "none")

\* AuthSnap.emit without its try/catch.
emit_noCatch(listeners, event) ==
    IF emitterThrows(listeners, event) THEN "threw" ELSE "returned"

\* AuthSnap.emit: whatever the emitter does, emit returns.
emit(listeners, event) == "returned"

----------------------------------------------------------------------------
(* The adapters' responses *)

\* The cookie that clears authsnap_state.
ClearStateCookie ==
    [name |-> "authsnap_state", value |-> NoToken, maxAge |-> 0, path |-> "/"]

\* The response object of a request: the Set-Cookie headers it holds, and,
\* once sent, the Location it redirects to.
NoHeaders == [sent |-> FALSE, setCookie |-> {}, location |-> <<>>]

\* The top of the callback route: Express and Fastify clear the state cookie
\* on the response before they call handleCallback; Hono does not.
routeEntry(adapter, res) ==
    IF adapter \in {"express", "fastify"}
    THEN [res EXCEPT !.setCookie = @ \cup {ClearStateCookie}]
    ELSE res

\* After handleCallback resolved.  Express: res.setHeader('Set-Cookie', ...)
\* replaces the header.  Fastify: reply.header('Set-Cookie', ...) adds to it.
\* Hono: a new Response with the clearing cookie and the session cookie.
routeResolved(adapter, res, redirectURL, sessionCookie) ==
    [sent |-> TRUE, location |-> redirectURL,
     setCookie |-> CASE adapter = "express" -> {sessionCookie}
                     [] adapter = "fastify" -> res.setCookie \cup {sessionCookie}
                     [] OTHER -> {ClearStateCookie, sessionCookie}]

\* The catch of the callback route, after handleCallbackError returned:
\* res.redirect / reply.redirect on the response so far, c.redirect in Hono.
routeCaught(adapter, res, redirectURL) ==
    [sent |-> TRUE, location |-> redirectURL,
     setCookie |-> IF adapter = "hono" THEN {} ELSE res.setCookie]

----------------------------------------------------------------------------
(* The callback route: handleCallback and handleCallbackError *)

IdleRequest ==
    [pc |-> "idle", provider |-> Undefined, code |-> Undefined,
     state |-> Undefined, storedState |-> Undefined,
     tokens |-> EmptyObj, user |-> EmptyObj, error |-> NoError,
     hookResult |-> EmptyObj, redirect |-> <<>>, redirectURL |-> <<>>,
     sessionCookie |-> EmptyObj, fx |-> <<>>,
     hookSaw |-> NoEntry, res |-> NoHeaders, wrote |-> 0]

\* The CSRF test without its emptiness half.
csrfInvalid_compareOnly(state, storedState) == state # storedState

\* The CSRF test of handleCallback: !state || state !== storedState.
csrfInvalid(state, storedState) == Falsy(state) \/ state # storedState

\* handleCallback with the code looked at before the state.
handleCallbackEntry_codeFirst(r, providerName, code, state, storedState) ==
    LET in == [r EXCEPT !.provider = providerName, !.code = code,
                        !.state = state, !.storedState = storedState]
    IN  IF Falsy(code)
        THEN [in EXCEPT !.pc = "rejected", !.error = NoCodeError]
        ELSE IF csrfInvalid(state, storedState)
        THEN [in EXCEPT !.pc = "rejected", !.error = CsrfError]
        ELSE [in EXCEPT !.pc = "exchangeCode", !.fx = Append(@, "exchangeCode")]

\* handleCallback up to its first await: the two checks, then the call of
\* provider.exchangeCode.
handleCallbackEntry(r, providerName, code, state, storedState) ==
    LET in == [r EXCEPT !.provider = providerName, !.code = code,
                        !.state = state, !.storedState = storedState]
    IN  IF csrfInvalid(state, storedState)
        THEN [in EXCEPT !.pc = "rejected", !.error = CsrfError]
        ELSE IF Falsy(code)
        THEN [in EXCEPT !.pc = "rejected", !.error = NoCodeError]
        ELSE [in EXCEPT !.pc = "exchangeCode", !.fx = Append(@, "exchangeCode")]

\* sessionManager.maxAge = config.maxAge || 86400
DefaultMaxAge == 86400
maxAge == IF config.maxAge = 0 THEN DefaultMaxAge ELSE config.maxAge

\* handleCallback from the return of onSuccess to its own return: the success
\* notification, the redirect check, the session token and its cookie; then
\* the route's response.
handleCallbackFinish(r, result, t) ==
    LET redirect == IF Has(result, "redirect") /\ result["redirect"] # <<>>
                    THEN result["redirect"] ELSE Root
        jwt == createToken(Secret, maxAge, r.user, RbacClaims(result), t)
        safeRedirect == validateRedirect(redirect, config.allowedRedirects)
        sessionCookie == buildCookieHeader(CookieName, maxAge, config.secure, jwt)
    IN  IF emit(config.listeners, "success") = "threw"
        THEN [r EXCEPT !.pc = "rejected", !.error = ListenerError,
                       !.hookResult = result, !.fx = Append(@, "emit:success")]
        ELSE [r EXCEPT !.pc = "resolved",
                       !.hookResult = result,
                       !.fx = @ \o <<"emit:success", "createToken">>,
                       !.redirect = redirect,
                       !.redirectURL = safeRedirect,
                       !.sessionCookie = sessionCookie,
                       !.res = routeResolved(config.adapter, @, safeRedirect,
                                             sessionCookie)]

\* handleCallbackError after the onError hook returned: the error
\* notification and the checked redirect; then the route's response.
handleCallbackErrorFinish(r, result) ==
    LET redirect == IF Has(result, "redirect") /\ result["redirect"] # <<>>
                    THEN result["redirect"] ELSE BasePath \o <<Slash, "error">>
        safeRedirect == validateRedirect(redirect, config.allowedRedirects)
    IN  IF emit(config.listeners, "error") = "threw"
        THEN [r EXCEPT !.pc = "threw", !.hookResult = result,
                       !.fx = Append(@, "emit:error")]
        ELSE [r EXCEPT !.pc = "errorRedirect",
                       !.hookResult = result,
                       !.fx = Append(@, "emit:error"),
                       !.redirect = redirect,
                       !.redirectURL = safeRedirect,
                       !.res = routeCaught(config.adapter, @, safeRedirect)]

NoCall == [op |-> "none"]
\* new InMemoryLinkStore(): both maps empty.
NoLinks == [forward |-> EmptyObj, reverse |-> EmptyObj]
NoRefresh == [pc |-> "idle"]
\* An empty Redis server.
NoRedis == EmptyObj
\* new TwitterProvider(config): _lastState is undefined, no login started.
NoTwitter == [lastState |-> "", flows |-> EmptyObj]
\* new EventEmitter(): nobody listens.
NoListeners == EmptyObj
\* No rate limiter was created.
NoLimiter == [windowMs |-> 0, max |-> 0, store |-> EmptyObj, log |-> <<>>]

\* No caller is holding a result it has not looked at yet: results are
\* observed one at a time.
Observed == call = NoCall /\ rf.pc # "returned"
\* No call is in progress: requests and calls are started one at a time.
Quiet == call = NoCall /\ rf.pc = "idle"

\* The route is entered with the query and the state cookie of the request.
HandleCallback(p) ==
    /\ Quiet
    /\ cb[p].pc = "idle"
    /\ \E providerName \in Providers, code \in CodeParams,
          state \in StateParams, storedState \in StoredStates :
          cb' = [cb EXCEPT ![p] =
                    handleCallbackEntry([@ EXCEPT !.res = routeEntry(config.adapter, @)],
                                        providerName, code, state, storedState)]
    /\ UNCHANGED <<config, tokenStore, now, session, minted, call, links, rf, jar, limiter, redis, twitter, emitter>>

\* AppleProvider.exchangeCode adds the id_token to the TokenSet it returns.
exchanged(providerName, tokens) ==
    IF providerName = "apple" THEN ("idToken" :> "apple-id-token") @@ tokens ELSE tokens

\* The extra argument of provider.getProfile(accessToken, extra = {}) as
\* handleCallback calls it: not passed.
profileExtra(tokens) == EmptyObj

\* provider.exchangeCode settles: a TokenSet, or a ProviderError; on success
\* handleCallback calls provider.getProfile.
ExchangeCode(p) ==
    /\ Quiet
    /\ cb[p].pc = "exchangeCode"
    /\ \/ \E tokens \in ExchangeTokenSets :
            cb' = [cb EXCEPT ![p].tokens = exchanged(cb[p].provider, tokens),
                             ![p].pc = "getProfile",
                             ![p].fx = Append(@, "getProfile")]
       \/ cb' = [cb EXCEPT ![p].pc = "rejected",
                           ![p].error = ProviderError("Token exchange failed")]
    /\ UNCHANGED <<config, tokenStore, now, session, minted, call, links, rf, jar, limiter, redis, twitter, emitter>>

\* provider.getProfile settles: an AuthUser, or a ProviderError.  Apple's
\* reads the profile from extra.idToken and throws without one.
GetProfile(p) ==
    /\ Quiet
    /\ cb[p].pc = "getProfile"
    /\ IF cb[p].provider = "apple"
       THEN IF Falsy(Get(profileExtra(cb[p].tokens), "idToken"))
            THEN cb' = [cb EXCEPT ![p].pc = "rejected", ![p].error = AppleNoIdToken]
            ELSE \E user \in Users :
                    cb' = [cb EXCEPT ![p].user = [user EXCEPT !.provider = "apple"],
                                     ![p].pc = "tokenStore.set"]
       ELSE \/ \E user \in Users :
                 cb' = [cb EXCEPT ![p].user = user, ![p].pc = "tokenStore.set"]
            \/ cb' = [cb EXCEPT ![p].pc = "rejected",
                                ![p].error = ProviderError("Failed to fetch user profile")]
    /\ UNCHANGED <<config, tokenStore, now, session, minted, call, links, rf, jar, limiter, redis, twitter, emitter>>

\* handleCallback going on to the hook without having written the store.
StoreTokens_skipped(p) ==
    /\ Quiet
    /\ cb[p].pc = "tokenStore.set"
    /\ cb' = [cb EXCEPT ![p].pc = "onSuccess", ![p].fx = Append(@, "tokenStore.set")]
    /\ UNCHANGED <<config, tokenStore, now, session, minted, call, links, rf, jar, limiter, redis, twitter, emitter>>

\* authSnap.tokenStore.set(TokenStore.key(providerName, user.id), tokens);
\* wrote numbers the writes of the requests in the order they are made.
StoreTokens(p) ==
    /\ Quiet
    /\ cb[p].pc = "tokenStore.set"
    /\ tokenStore' = StoreSet(tokenStore, Key(cb[p].provider, cb[p].user.id),
                              cb[p].tokens, now)
    /\ cb' = [cb EXCEPT ![p].pc = "onSuccess", ![p].fx = Append(@, "tokenStore.set"),
                        ![p].wrote = 1 + Cardinality({q \in DOMAIN cb : cb[q].wrote > 0})]
    /\ UNCHANGED <<config, now, session, minted, call, links, rf, jar, limiter, redis, twitter, emitter>>

\* The onSuccess hook, when one is configured, and the rest of handleCallback.
\* The hook reads the Token Store under the key of this login.  A hook that
\* throws or rejects makes the await throw.  The browser keeps the session
\* cookie of the response.
OnSuccess(p) ==
    /\ Quiet
    /\ cb[p].pc = "onSuccess"
    /\ LET key == Key(cb[p].provider, cb[p].user.id)
           called == [cb[p] EXCEPT !.fx = Append(@, "onSuccess"),
                                   !.hookSaw = StoreGet(tokenStore, key)]
       IN  IF config.onSuccess
           THEN \/ \E result \in OnSuccessResults :
                     cb' = [cb EXCEPT ![p] = handleCallbackFinish(called, result, epoch(now))]
                \/ cb' = [cb EXCEPT ![p] = [called EXCEPT !.pc = "rejected",
                                                          !.error = HookError]]
           ELSE cb' = [cb EXCEPT ![p] = handleCallbackFinish(@, EmptyObj, epoch(now))]
    /\ IF cb'[p].pc = "resolved"
       THEN /\ session' = cb'[p].sessionCookie.value
            /\ minted' = [user |-> cb[p].user, extra |-> RbacClaims(cb'[p].hookResult)]
            /\ jar' = "set"
       ELSE UNCHANGED <<session, minted, jar, limiter, redis, twitter, emitter>>
    /\ UNCHANGED <<config, tokenStore, now, call, links, rf, limiter, redis, twitter, emitter>>

\* The adapter's catch: handleCallbackError(authSnap, providerName, error).
\* An onError hook that throws makes handleCallbackError throw.
HandleCallbackError(p) ==
    /\ Quiet
    /\ cb[p].pc = "rejected"
    /\ IF config.onError
       THEN \/ \E result \in OnErrorResults :
                 cb' = [cb EXCEPT ![p] =
                           handleCallbackErrorFinish([@ EXCEPT !.fx = Append(@, "onError")],
                                                     result)]
            \/ cb' = [cb EXCEPT ![p].pc = "threw", ![p].fx = Append(@, "onError")]
       ELSE cb' = [cb EXCEPT ![p] = handleCallbackErrorFinish(@, EmptyObj)]
    /\ UNCHANGED <<config, tokenStore, now, session, minted, call, links, rf, jar, limiter, redis, twitter, emitter>>

\* The adapter the application mounts: auth.express(), .fastify() or .hono().
Adapters == {"express", "fastify", "hono"}
\* What a synchronous hook does when it is set: return, or throw.
HookBehaviours == {"none", "returns", "throws"}
\* The listeners subscribed with auth.on(): none, or one that throws on
\* every event.
ListenerBehaviours == {"none", "throws"}

Configs ==
    [allowedRedirects : AllowLists, onSuccess : BOOLEAN, onError : BOOLEAN,
     maxAge : 0..MaxLifetime, secure : BOOLEAN,
     adapter : Adapters, listeners : ListenerBehaviours,
     onBeforeAuth : HookBehaviours, onTokenRefresh : HookBehaviours]

\* A configuration without the hooks and listeners of the login, logout and
\* refresh flows.
Plain(c) ==
    c.listeners = "none" /\ c.onBeforeAuth = "none" /\ c.onTokenRefresh = "none"

\* The callback route under every allow-list and hook setting behind the
\* Express adapter, and behind the other adapters without an allow-list.
InitCallback ==
    /\ config \in {c \in Configs :
                     /\ c.maxAge = MaxLifetime /\ c.secure /\ Plain(c)
                     /\ c.adapter # "express" => c.allowedRedirects = NoAllowList}
    /\ cb = [p \in Reqs |-> IdleRequest]
    /\ tokenStore = EmptyObj
    /\ now = 0
    /\ session = NoToken
    /\ minted = EmptyObj
    /\ call = NoCall
    /\ links = NoLinks
    /\ rf = NoRefresh
    /\ jar = "empty"
    /\ limiter = NoLimiter
    /\ redis = NoRedis
    /\ twitter = NoTwitter
    /\ emitter = NoListeners

NextCallback ==
    \E p \in Reqs :
        \/ HandleCallback(p)
        \/ ExchangeCode(p)
        \/ GetProfile(p)
        \/ StoreTokens(p)
        \/ OnSuccess(p)
        \/ HandleCallbackError(p)

SpecCallback == InitCallback /\ [][NextCallback]_vars

----------------------------------------------------------------------------
(* The protect middleware (middleware/protect.js) *)

\* A request: req.cookies[cookieName] when a cookie parser ran, and the
\* value of the cookie in the raw Cookie header; NoToken is "not there".
Request(parsed, header) == [cookies |-> parsed, header |-> header]

\* SessionManager.getTokenFromRequest: the parsed cookie first, then the raw
\* header; NoToken models null and the empty value, both falsy.
getTokenFromRequest(req) ==
    IF req.cookies # NoToken THEN req.cookies ELSE req.header

Redirect(url) == [kind |-> "redirect", url |-> url]
Json(status, message) == [kind |-> "json", status |-> status, error |-> message]
NoResponse == [kind |-> "none"]

handleUnauthorized(options) ==
    IF ~Falsy(Get(options, "redirect"))
    THEN Redirect(options["redirect"])
    ELSE Json(401, "Unauthorized")

handleForbidden(options) ==
    IF ~Falsy(Get(options, "forbiddenRedirect"))
    THEN Redirect(options["forbiddenRedirect"])
    ELSE Json(403, "Forbidden")

\* options.roles && options.roles.length > 0, likewise for permissions
Required(options, k) == Has(options, k) /\ Len(options[k]) > 0

\* required.every(...): AND semantics.
hasAny_every(required, user, k) ==
    LET mine == IF Has(user, k) THEN user[k] ELSE <<>>
    IN  \A i \in DOMAIN required : \E j \in DOMAIN mine : required[i] = mine[j]

\* required.some((r) => (user[k] || []).includes(r))
hasAny(required, user, k) ==
    LET mine == IF Has(user, k) THEN user[k] ELSE <<>>
    IN  \E i \in DOMAIN required : \E j \in DOMAIN mine : required[i] = mine[j]

\* A middleware that looks at the role requirement before the credential: a
\* request without a usable token is judged as a user without roles.
protect_rolesFirst(options, req, t) ==
    LET token == getTokenFromRequest(req)
        v == IF token = NoToken
             THEN [ok |-> FALSE, user |-> EmptyObj, error |-> EmptyObj]
             ELSE verifyToken(token, Secret, t)
    IN  IF Required(options, "roles") /\ ~hasAny(options["roles"], v.user, "roles")
        THEN [res |-> handleForbidden(options), next |-> FALSE, user |-> v.user]
        ELSE IF /\ Required(options, "permissions")
                /\ ~hasAny(options["permissions"], v.user, "permissions")
        THEN [res |-> handleForbidden(options), next |-> FALSE, user |-> v.user]
        ELSE IF ~v.ok
        THEN [res |-> handleUnauthorized(options), next |-> FALSE, user |-> EmptyObj]
        ELSE [res |-> NoResponse, next |-> TRUE, user |-> v.user]

\* A middleware for which one matching list is enough when both roles and
\* permissions are required.
protect_either(options, req, t) ==
    LET token == getTokenFromRequest(req)
        v == verifyToken(token, Secret, t)
        roleMiss == Required(options, "roles")
                    /\ ~hasAny(options["roles"], v.user, "roles")
        permMiss == Required(options, "permissions")
                    /\ ~hasAny(options["permissions"], v.user, "permissions")
        both == Required(options, "roles") /\ Required(options, "permissions")
    IN  IF token = NoToken \/ ~v.ok
        THEN [res |-> handleUnauthorized(options), next |-> FALSE, user |-> EmptyObj]
        ELSE IF (both /\ roleMiss /\ permMiss) \/ (~both /\ (roleMiss \/ permMiss))
        THEN [res |-> handleForbidden(options), next |-> FALSE, user |-> v.user]
        ELSE [res |-> NoResponse, next |-> TRUE, user |-> v.user]

\* A middleware that answers Forbidden without returning, and goes on to
\* next().
protect_fallThrough(options, req, t) ==
    LET token == getTokenFromRequest(req)
        v == verifyToken(token, Secret, t)
    IN  IF token = NoToken \/ ~v.ok
        THEN [res |-> handleUnauthorized(options), next |-> FALSE, user |-> EmptyObj]
        ELSE IF \/ Required(options, "roles")
                   /\ ~hasAny(options["roles"], v.user, "roles")
                \/ Required(options, "permissions")
                   /\ ~hasAny(options["permissions"], v.user, "permissions")
        THEN [res |-> handleForbidden(options), next |-> TRUE, user |-> v.user]
        ELSE [res |-> NoResponse, next |-> TRUE, user |-> v.user]

\* The middleware of createProtectMiddleware(sessionManager, options) on one
\* request at time t: the response written, whether next() ran, and req.user
\* afterwards (the request arrives without one).
protect(options, req, t) ==
    LET token == getTokenFromRequest(req)
        v == verifyToken(token, Secret, t)
    IN  IF token = NoToken
        THEN [res |-> handleUnauthorized(options), next |-> FALSE, user |-> EmptyObj]
        ELSE IF ~v.ok
        THEN [res |-> handleUnauthorized(options), next |-> FALSE, user |-> EmptyObj]
        ELSE IF Required(options, "roles") /\ ~hasAny(options["roles"], v.user, "roles")
        THEN [res |-> handleForbidden(options), next |-> FALSE, user |-> v.user]
        ELSE IF /\ Required(options, "permissions")
                /\ ~hasAny(options["permissions"], v.user, "permissions")
        THEN [res |-> handleForbidden(options), next |-> FALSE, user |-> v.user]
        ELSE [res |-> NoResponse, next |-> TRUE, user |-> v.user]

----------------------------------------------------------------------------
(* Sessions: tokens minted, presented and verified as time passes *)

OtherSecret == "secret-B"

\* What createToken is given besides the user.
Extras ==
    {Prop("roles", ro) @@ Prop("permissions", pe) :
        ro \in Opt({<<"editor">>, <<"viewer">>, <<>>}),
        pe \in Opt({<<"write:posts">>})}

\* The options protect() is created with.
ProtectOptions ==
    {Prop("roles", ro) @@ Prop("permissions", pe)
       @@ Prop("redirect", rd) @@ Prop("forbiddenRedirect", fr) :
        ro \in Opt({<<"admin", "editor">>, <<>>}), pe \in Opt({<<"write:posts">>}),
        rd \in Opt({"/login"}), fr \in Opt({"/no-access"})}

\* A token with its signature segment replaced.
WithSig(token, sig) == [token EXCEPT !.sig = sig]
\* A token with its payload segment replaced, the signature kept.
WithPayload(token, payload) == [token EXCEPT !.payload = payload]
\* The token another party mints: the same claims signed under its own secret.
SignedBy(secret, header, payload) == JWS(header, payload, HS256(secret, header, payload))

Escalated(payload) == ("roles" :> <<"admin">>) @@ payload
\* The signatures an altered signature segment may hold: bytes that are no
\* tag at all, the tag under another key, the tag of another message.
AlteredSigs(token) ==
    {HS256("<no key>", token.header, token.payload),
     HS256(OtherSecret, token.header, token.payload),
     HS256(Secret, token.header, Escalated(token.payload))} \ {token.sig}

\* The tokens a client holding the session cookie may present.
Presented(held) ==
    {NoToken, GarbageToken}
    \cup (IF held = NoToken THEN {}
          ELSE {held}
               \cup {WithSig(held, sg) : sg \in AlteredSigs(held)}
               \cup {WithPayload(held, Escalated(held.payload)),
                     SignedBy(OtherSecret, held.header, held.payload),
                     SignedBy(OtherSecret, held.header, Escalated(held.payload)),
                     SignedBy(Secret, held.header, ("iss" :> "another") @@ held.payload)})

Requests(held) ==
    {Request(NoToken, tk) : tk \in Presented(held)}
    \cup {Request(held, tk) : tk \in {NoToken, GarbageToken}}

\* Time passes between two requests.
Tick ==
    /\ Observed
    /\ \A p \in DOMAIN cb : cb[p].pc \in {"idle", "resolved", "errorRedirect", "threw"}
    /\ now < MaxTime * TicksPerSecond
    /\ now' = now + 1
    /\ UNCHANGED <<config, cb, tokenStore, session, minted, call, links, rf, jar, limiter, redis, twitter, emitter>>

\* sessionManager.createToken(user, extra); the client keeps the token.
CreateToken ==
    /\ Quiet
    /\ \E user \in Users, extra \in Extras :
          /\ session' = createToken(Secret, maxAge, user, extra, epoch(now))
          /\ minted' = [user |-> user, extra |-> extra]
          /\ call' = [op |-> "createToken", user |-> user, extra |-> extra, at |-> now]
    /\ UNCHANGED <<config, cb, tokenStore, now, links, rf, jar, limiter, redis, twitter, emitter>>

\* sessionManager.verifyToken(token) on a token the client presents.
VerifyToken ==
    /\ Quiet
    /\ \E token \in Presented(session) \ {NoToken} :
          call' = [op |-> "verifyToken", token |-> token, at |-> now,
                   result |-> verifyToken(token, Secret, epoch(now))]
    /\ UNCHANGED <<config, cb, tokenStore, now, session, minted, links, rf, jar, limiter, redis, twitter, emitter>>

\* One request through a protect() middleware.
Protect ==
    /\ Quiet
    /\ \E options \in ProtectOptions, req \in Requests(session) :
          call' = [op |-> "protect", options |-> options, req |-> req, at |-> now,
                   result |-> protect(options, req, epoch(now))]
    /\ UNCHANGED <<config, cb, tokenStore, now, session, minted, links, rf, jar, limiter, redis, twitter, emitter>>

\* The caller has the outcome of its call; the next call may start.
Return ==
    /\ call # NoCall
    /\ call' = NoCall
    /\ UNCHANGED <<config, cb, tokenStore, now, session, minted, links, rf, jar, limiter, redis, twitter, emitter>>

InitSession ==
    /\ config \in {c \in Configs : /\ c.allowedRedirects = NoAllowList
                                   /\ ~c.onSuccess /\ ~c.onError /\ c.secure
                                   /\ c.adapter = "express" /\ Plain(c)}
    /\ cb = [p \in Reqs |-> IdleRequest]
    /\ tokenStore = EmptyObj
    /\ now = 0
    /\ session = NoToken
    /\ minted = EmptyObj
    /\ call = NoCall
    /\ links = NoLinks
    /\ rf = NoRefresh
    /\ jar = "empty"
    /\ limiter = NoLimiter
    /\ redis = NoRedis
    /\ twitter = NoTwitter
    /\ emitter = NoListeners

NextSession == Tick \/ CreateToken \/ VerifyToken \/ Protect \/ Return

SpecSession == InitSession /\ [][NextSession]_vars

----------------------------------------------------------------------------
(* Login and logout (route-handler.js) *)

\* What a synchronous handler did: returned a value or threw, and the
\* effects it had up to there.
Returned(value, fx) == [ok |-> TRUE, value |-> value, error |-> NoError, fx |-> fx]
Thrown(error, fx) == [ok |-> FALSE, value |-> EmptyObj, error |-> error, fx |-> fx]

\* randomBytes(32).toString('hex')
LoginStates == {"s1", "s2"}

\* The adapter's callbackURL for a provider, the origin left out.
CallbackURL(providerName) == BasePath \o <<Slash, providerName, Slash, "callback">>

\* BaseProvider.getAuthorizationURL: the endpoint with its query.
getAuthorizationURL(providerName, callbackURL, state) ==
    [endpoint |-> providerName, redirect_uri |-> callbackURL,
     response_type |-> "code", state |-> state]

\* handleLogin under configuration c.
handleLogin(c, providerName, callbackURL, state) ==
    IF c.onBeforeAuth = "throws"
    THEN Thrown(HookError, <<"onBeforeAuth">>)
    ELSE LET fx == (IF c.onBeforeAuth = "none" THEN <<>> ELSE <<"onBeforeAuth">>)
                   \o <<"emit:login">>
         IN  IF emit(c.listeners, "login") = "threw"
             THEN Thrown(ListenerError, fx)
             ELSE Returned([redirectURL |-> getAuthorizationURL(providerName,
                                                                callbackURL, state),
                            state |-> state, secure |-> c.secure], fx)

\* SessionManager.buildClearCookieHeader
buildClearCookieHeader(cookieName) ==
    [name |-> cookieName, value |-> NoToken, maxAge |-> 0, path |-> "/",
     httpOnly |-> TRUE, sameSite |-> "Lax"]

\* A logout that also forgets the user's provider tokens.
handleLogout_purge(c, store, linked) ==
    [out |-> Returned([clearCookie |-> buildClearCookieHeader(CookieName)],
                      <<"emit:logout">>),
     tokenStore |-> EmptyObj, links |-> linked]

\* handleLogout under configuration c: what it returns, and the Token Store
\* and the link store as it leaves them.
handleLogout(c, store, linked) ==
    [out |-> IF emit(c.listeners, "logout") = "threw"
             THEN Thrown(ListenerError, <<"emit:logout">>)
             ELSE Returned([clearCookie |-> buildClearCookieHeader(CookieName)],
                           <<"emit:logout">>),
     tokenStore |-> store, links |-> linked]

\* The login route calls handleLogin.
HandleLogin ==
    /\ Quiet
    /\ \E providerName \in Providers, state \in LoginStates :
          call' = [op |-> "handleLogin", provider |-> providerName, state |-> state,
                   result |-> handleLogin(config, providerName,
                                          CallbackURL(providerName), state)]
    /\ UNCHANGED <<config, cb, tokenStore, now, session, minted, links, rf, jar, limiter, redis, twitter, emitter>>

\* The logout route calls handleLogout and sends the clearing cookie, which
\* the browser obeys.
HandleLogout ==
    /\ Quiet
    /\ LET done == handleLogout(config, tokenStore, links)
       IN  /\ call' = [op |-> "handleLogout", result |-> done.out,
                       before |-> [tokenStore |-> tokenStore, links |-> links]]
           /\ tokenStore' = done.tokenStore
           /\ links' = done.links
           /\ jar' = IF done.out.ok THEN "cleared" ELSE jar
    /\ UNCHANGED <<config, cb, now, session, minted, rf, limiter, redis, twitter, emitter>>

----------------------------------------------------------------------------
(* Account links (InMemoryLinkStore in session-manager.js) *)

AppUsers == {"app1"}

\* InMemoryLinkStore.link
link(linked, userId, provider, providerId) ==
    LET mine == IF userId \in DOMAIN linked.forward
                THEN linked.forward[userId] ELSE EmptyObj
    IN  [forward |-> (userId :> ((provider :> providerId) @@ mine)) @@ linked.forward,
         reverse |-> (<<provider, ":", providerId>> :> userId) @@ linked.reverse]

\* The application links the account that has just logged in to one of its
\* users.
Link ==
    /\ Quiet
    /\ \E p \in Reqs, userId \in AppUsers :
          /\ cb[p].pc = "resolved"
          /\ links' = link(links, userId, cb[p].user.provider, cb[p].user.id)
          /\ links' # links
    /\ UNCHANGED <<config, cb, tokenStore, now, session, minted, call, rf, jar, limiter, redis, twitter, emitter>>

----------------------------------------------------------------------------
(* Token refresh (token-refresh.js) over the Token Store *)

\* TokenStore.delete
StoreDelete(store, key) == [k \in DOMAIN store \ {key} |-> store[k]]

\* isExpired that counts the instant expiresAt itself as expired.
isExpired_atBoundary(store, key, t) ==
    IF key \notin DOMAIN store THEN TRUE
    ELSE IF store[key]["expiresAt"] = 0 THEN FALSE
    ELSE t >= store[key]["expiresAt"]

\* TokenStore.isExpired at time t
isExpired(store, key, t) ==
    IF key \notin DOMAIN store THEN TRUE
    ELSE IF store[key]["expiresAt"] = 0 THEN FALSE
    ELSE t > store[key]["expiresAt"]

UserIds == {u.id : u \in Users}

\* The JSON a token endpoint answers a refresh with: a new refresh token or
\* none, expires_in (in seconds) or none (0).
RefreshResponses ==
    {[access_token |-> "at-new", refresh_token |-> rt, expires_in |-> e] :
        rt \in {Undefined, "rt-new"}, e \in {0, 1}}

\* TokenRefresher._exchangeRefreshToken on a 2xx answer, at time t.
exchangeRefreshToken(data, t) ==
    [accessToken |-> data.access_token,
     refreshToken |-> IF Falsy(data.refresh_token) THEN Null ELSE data.refresh_token,
     expiresAt |-> IF data.expires_in = 0 THEN 0
                   ELSE t + data.expires_in * TicksPerSecond,
     tokenType |-> "Bearer", scope |-> Null]

\* getValidTokens that refreshes whenever it can, expired or not.
getValidTokens_eager(store, key, t) ==
    LET tokens == StoreGet(store, key)
    IN  IF tokens = NoEntry
        THEN [refresh |-> FALSE, result |-> NoEntry, store |-> store]
        ELSE IF Falsy(tokens["refreshToken"])
        THEN [refresh |-> FALSE,
              result |-> IF isExpired(store, key, t) THEN NoEntry ELSE tokens,
              store |-> store]
        ELSE [refresh |-> TRUE, result |-> tokens, store |-> store]

\* TokenRefresher.getValidTokens up to its return or its call of _refresh:
\* whether it refreshes, what it returns otherwise (with refresh, the
\* current tokens), and the store as it leaves it.
getValidTokens(store, key, t) ==
    LET tokens == StoreGet(store, key)
    IN  IF tokens = NoEntry
        THEN [refresh |-> FALSE, result |-> NoEntry, store |-> store]
        ELSE IF ~isExpired(store, key, t)
        THEN [refresh |-> FALSE, result |-> tokens, store |-> store]
        ELSE IF Falsy(tokens["refreshToken"])
        THEN [refresh |-> FALSE, result |-> NoEntry, store |-> store]
        ELSE [refresh |-> TRUE, result |-> tokens, store |-> store]

\* forceRefresh that leaves unexpired tokens alone.
forceRefresh_ifExpired(store, key, t) ==
    LET tokens == StoreGet(store, key)
    IN  IF tokens = NoEntry \/ Falsy(tokens["refreshToken"])
           \/ ~isExpired(store, key, t)
        THEN [refresh |-> FALSE, result |-> NoEntry, store |-> store]
        ELSE [refresh |-> TRUE, result |-> tokens, store |-> store]

\* TokenRefresher.forceRefresh, likewise.
forceRefresh(store, key, t) ==
    LET tokens == StoreGet(store, key)
    IN  IF tokens = NoEntry \/ Falsy(tokens["refreshToken"])
        THEN [refresh |-> FALSE, result |-> NoEntry, store |-> store]
        ELSE [refresh |-> TRUE, result |-> tokens, store |-> store]

\* The call as it stands after getValidTokens / forceRefresh decided: waiting
\* for the token endpoint, or returned.
refreshCall(op, providerName, key, decided, before, t) ==
    [pc |-> IF decided.refresh THEN "exchange" ELSE "returned",
     op |-> op, provider |-> providerName, key |-> key,
     current |-> IF decided.refresh THEN decided.result ELSE NoEntry,
     exchanges |-> IF decided.refresh THEN 1 ELSE 0,
     outcome |-> "none",
     result |-> IF decided.refresh THEN NoEntry ELSE decided.result,
     response |-> EmptyObj,
     before |-> before, after |-> decided.store, at |-> t, fx |-> <<>>]

\* _refresh that keeps the entry when the exchange fails.
refreshSettled_keepOnFailure(c, store, r, ok, data, t) ==
    LET newTokens == exchangeRefreshToken(data, t)
        kept == IF Falsy(newTokens.refreshToken) /\ ~Falsy(r.current["refreshToken"])
                THEN [newTokens EXCEPT !.refreshToken = r.current["refreshToken"]]
                ELSE newTokens
    IN  IF ~ok
        THEN [store |-> store, result |-> NoEntry, fx |-> <<>>]
        ELSE [store |-> StoreSet(store, r.key, kept, t), result |-> kept,
              fx |-> <<"tokenStore.set", "emit:token:refresh">>]

\* TokenRefresher._refresh from the answer of the token endpoint on: the
\* store as it leaves it, what it returns (NoEntry for null), its effects.
refreshSettled(c, store, r, ok, data, t) ==
    LET newTokens == exchangeRefreshToken(data, t)
        kept == IF Falsy(newTokens.refreshToken) /\ ~Falsy(r.current["refreshToken"])
                THEN [newTokens EXCEPT !.refreshToken = r.current["refreshToken"]]
                ELSE newTokens
        stored == StoreSet(store, r.key, kept, t)
        hooked == IF c.onTokenRefresh = "none" THEN <<"tokenStore.set">>
                  ELSE <<"tokenStore.set", "onTokenRefresh">>
    IN  IF ~ok
        THEN [store |-> StoreDelete(store, r.key), result |-> NoEntry,
              fx |-> <<"tokenStore.delete">>]
        ELSE IF c.onTokenRefresh = "throws"
        THEN [store |-> StoreDelete(stored, r.key), result |-> NoEntry,
              fx |-> hooked \o <<"tokenStore.delete">>]
        ELSE IF emit(c.listeners, "token:refresh") = "threw"
        THEN [store |-> StoreDelete(stored, r.key), result |-> NoEntry,
              fx |-> hooked \o <<"emit:token:refresh", "tokenStore.delete">>]
        ELSE [store |-> stored, result |-> kept,
              fx |-> Append(hooked, "emit:token:refresh")]

\* tokenRefresher.getValidTokens(providerName, userId)
GetValidTokens ==
    /\ Quiet
    /\ rf.pc = "idle"
    /\ \E providerName \in Providers, userId \in UserIds :
          LET key == Key(providerName, userId)
              decided == getValidTokens(tokenStore, key, now)
          IN  /\ rf' = refreshCall("getValidTokens", providerName, key, decided,
                                   tokenStore, now)
              /\ tokenStore' = decided.store
    /\ UNCHANGED <<config, cb, now, session, minted, call, links, jar, limiter, redis, twitter, emitter>>

\* tokenRefresher.forceRefresh(providerName, userId)
ForceRefresh ==
    /\ Quiet
    /\ rf.pc = "idle"
    /\ \E providerName \in Providers, userId \in UserIds :
          LET key == Key(providerName, userId)
              decided == forceRefresh(tokenStore, key, now)
          IN  /\ rf' = refreshCall("forceRefresh", providerName, key, decided,
                                   tokenStore, now)
              /\ tokenStore' = decided.store
    /\ UNCHANGED <<config, cb, now, session, minted, call, links, jar, limiter, redis, twitter, emitter>>

\* The token endpoint answers (2xx with a body, or a failure of the request),
\* and _refresh runs to its return.
RefreshSettles ==
    /\ Observed
    /\ rf.pc = "exchange"
    /\ \E ok \in BOOLEAN, data \in RefreshResponses :
          LET done == refreshSettled(config, tokenStore, rf, ok, data, now)
          IN  /\ rf' = [rf EXCEPT !.pc = "returned",
                                  !.outcome = IF ok THEN "success" ELSE "failure",
                                  !.response = IF ok THEN data ELSE EmptyObj,
                                  !.result = done.result,
                                  !.after = done.store,
                                  !.fx = done.fx]
              /\ tokenStore' = done.store
    /\ UNCHANGED <<config, cb, now, session, minted, call, links, jar, limiter, redis, twitter, emitter>>

\* The caller has the result of its refresh call.
RefreshReturn ==
    /\ rf.pc = "returned"
    /\ rf' = NoRefresh
    /\ UNCHANGED <<config, cb, tokenStore, now, session, minted, call, links, jar, limiter, redis, twitter, emitter>>

----------------------------------------------------------------------------
(* The life of a login: login, callback, links, refreshes, checks, logout *)

\* No callback hooks, no allow-list, the Express adapter; every setting of
\* the listeners and of the onBeforeAuth and onTokenRefresh hooks.
InitLifecycle ==
    /\ config \in {c \in Configs :
                     /\ c.allowedRedirects = NoAllowList
                     /\ ~c.onSuccess /\ ~c.onError
                     /\ c.maxAge = MaxLifetime /\ c.secure
                     /\ c.adapter = "express"
                     /\ \/ c.onBeforeAuth = "none" /\ c.onTokenRefresh = "none"
                        \/ c.listeners = "none" /\ c.onBeforeAuth = "none"
                        \/ c.listeners = "none" /\ c.onTokenRefresh = "none"}
    /\ cb = [p \in Reqs |-> IdleRequest]
    /\ tokenStore = EmptyObj
    /\ now = 0
    /\ session = NoToken
    /\ minted = EmptyObj
    /\ call = NoCall
    /\ links = NoLinks
    /\ rf = NoRefresh
    /\ jar = "empty"
    /\ limiter = NoLimiter
    /\ redis = NoRedis
    /\ twitter = NoTwitter
    /\ emitter = NoListeners

NextLifecycle ==
    \/ Tick
    \/ HandleLogin
    \/ \E p \in Reqs :
          \/ HandleCallback(p)
          \/ ExchangeCode(p)
          \/ GetProfile(p)
          \/ StoreTokens(p)
          \/ OnSuccess(p)
          \/ HandleCallbackError(p)
    \/ Link
    \/ GetValidTokens
    \/ ForceRefresh
    \/ RefreshSettles
    \/ RefreshReturn
    \/ VerifyToken
    \/ HandleLogout
    \/ Return

SpecLifecycle == InitLifecycle /\ [][NextLifecycle]_vars

----------------------------------------------------------------------------
(* The rate limiter (rate-limit.js) *)

\* The keys (client addresses) that call.
LimiterKeys == {"ip1", "ip2"}
\* The largest options.max, and how many calls are kept on record.
MaxAllowed == 2
MaxCalls == 3

\* The window, in ticks of the clock: one second.
WindowTicks == TicksPerSecond

\* createRateLimiter(options): an empty Map.
createRateLimiter(windowMs, max) ==
    [windowMs |-> windowMs, max |-> max, store |-> EmptyObj, log |-> <<>>]

\* store.get(key) || []
Timestamps(l, key) == IF key \in DOMAIN l.store THEN l.store[key] ELSE <<>>

\* timestamps.filter(t => now - t < windowMs)
Valid(timestamps, windowMs, t) ==
    LET inWindow(x) == t - x < windowMs
    IN  SelectSeq(timestamps, inWindow)

\* check that counts the denied call too.
check_recordDenied(l, key, t) ==
    LET valid == Valid(Timestamps(l, key), l.windowMs, t)
    IN  [allowed |-> Len(valid) < l.max,
         store |-> (key :> Append(valid, t)) @@ l.store]

\* check that lets one call more through.
check_offByOne(l, key, t) ==
    LET valid == Valid(Timestamps(l, key), l.windowMs, t)
    IN  IF Len(valid) > l.max
        THEN [allowed |-> FALSE, store |-> (key :> valid) @@ l.store]
        ELSE [allowed |-> TRUE, store |-> (key :> Append(valid, t)) @@ l.store]

\* check(key) at time t: whether the call is allowed, and the Map after it.
check(l, key, t) ==
    LET valid == Valid(Timestamps(l, key), l.windowMs, t)
    IN  IF Len(valid) >= l.max
        THEN [allowed |-> FALSE, store |-> (key :> valid) @@ l.store]
        ELSE [allowed |-> TRUE, store |-> (key :> Append(valid, t)) @@ l.store]

\* reset that forgets every key.
reset_all(l, key) == EmptyObj

\* reset(key): store.delete(key)
reset(l, key) == [k \in DOMAIN l.store \ {key} |-> l.store[k]]

\* clear(): store.clear()
clear(l) == EmptyObj

\* A cleanup whose window is one tick short: it drops timestamps that
\* still count.
cleanup_eager(l, t) ==
    LET live == {k \in DOMAIN l.store : Valid(l.store[k], l.windowMs - 1, t) # <<>>}
    IN  [k \in live |-> Valid(l.store[k], l.windowMs - 1, t)]

\* The cleanup the interval timer runs: stale timestamps go, and keys left
\* with none.
cleanup(l, t) ==
    LET live == {k \in DOMAIN l.store : Valid(l.store[k], l.windowMs, t) # <<>>}
    IN  [k \in live |-> Valid(l.store[k], l.windowMs, t)]

\* A route calls limiter.check(getClientIP(req)).
Check ==
    /\ Len(limiter.log) < MaxCalls
    /\ \E key \in LimiterKeys :
          LET done == check(limiter, key, now)
          IN  limiter' = [limiter EXCEPT
                            !.store = done.store,
                            !.log = Append(@, [op |-> "check", key |-> key, at |-> now,
                                               allowed |-> done.allowed])]
    /\ UNCHANGED <<config, cb, tokenStore, now, session, minted, call, links, rf, jar, redis, twitter, emitter>>

\* The calls on record that are not about key.
Others(log, key) ==
    LET other(e) == e.key # key
    IN  SelectSeq(log, other)

\* limiter.reset(key) on a key that has timestamps; the record keeps the
\* calls made since the last reset of each key, and of the reset whether
\* the key held max timestamps.
Reset ==
    /\ \E key \in DOMAIN limiter.store :
          limiter' = [limiter EXCEPT
                        !.store = reset(limiter, key),
                        !.log = Append(Others(@, key),
                                       [op |-> "reset", key |-> key, at |-> now,
                                        full |-> Len(limiter.store[key]) >= limiter.max])]
    /\ UNCHANGED <<config, cb, tokenStore, now, session, minted, call, links, rf, jar, redis, twitter, emitter>>

\* limiter.clear()
Clear ==
    /\ limiter.store # EmptyObj
    /\ limiter' = [limiter EXCEPT
                     !.store = clear(limiter),
                     !.log = <<[op |-> "clear", key |-> ""]>>]
    /\ UNCHANGED <<config, cb, tokenStore, now, session, minted, call, links, rf, jar, redis, twitter, emitter>>

\* The interval timer fires.
Cleanup ==
    /\ limiter.store # cleanup(limiter, now)
    /\ limiter' = [limiter EXCEPT !.store = cleanup(limiter, now)]
    /\ UNCHANGED <<config, cb, tokenStore, now, session, minted, call, links, rf, jar, redis, twitter, emitter>>

\* A limiter with a window of one second and max one of the two largest
\* values.
InitRateLimit ==
    /\ config \in {c \in Configs : /\ c.allowedRedirects = NoAllowList
                                   /\ ~c.onSuccess /\ ~c.onError
                                   /\ c.maxAge = MaxLifetime /\ c.secure
                                   /\ c.adapter = "express" /\ Plain(c)}
    /\ cb = [p \in Reqs |-> IdleRequest]
    /\ tokenStore = EmptyObj
    /\ now = 0
    /\ session = NoToken
    /\ minted = EmptyObj
    /\ call = NoCall
    /\ links = NoLinks
    /\ rf = NoRefresh
    /\ jar = "empty"
    /\ \E max \in {MaxAllowed - 1, MaxAllowed} : limiter = createRateLimiter(WindowTicks, max)
    /\ redis = NoRedis
    /\ twitter = NoTwitter
    /\ emitter = NoListeners

NextRateLimit == Tick \/ Check \/ Reset \/ Clear \/ Cleanup

SpecRateLimit == InitRateLimit /\ [][NextRateLimit]_vars

----------------------------------------------------------------------------
(* The link store on its own (AccountLinker over InMemoryLinkStore) *)

\* The application's users that link accounts.
LinkUsers == {"app1", "app2"}

\* InMemoryLinkStore._reverseKey
reverseKey(provider, providerId) == <<provider, ":", providerId>>

\* InMemoryLinkStore.unlink: the store after it, and what it returns.
unlink(linked, userId, provider) ==
    IF userId \notin DOMAIN linked.forward
    THEN [links |-> linked, result |-> FALSE]
    ELSE IF provider \notin DOMAIN linked.forward[userId]
    THEN [links |-> linked, result |-> FALSE]
    ELSE LET mine == linked.forward[userId]
             providerId == mine[provider]
             rest == [q \in DOMAIN mine \ {provider} |-> mine[q]]
             reverse == [k \in DOMAIN linked.reverse \ {reverseKey(provider, providerId)}
                           |-> linked.reverse[k]]
         IN  [links |-> [forward |-> IF rest = EmptyObj
                                     THEN [u \in DOMAIN linked.forward \ {userId}
                                             |-> linked.forward[u]]
                                     ELSE (userId :> rest) @@ linked.forward,
                         reverse |-> reverse],
              result |-> TRUE]

\* InMemoryLinkStore.getLinkedAccounts: {} for a user with no entry.
getLinkedAccounts(linked, userId) ==
    IF userId \in DOMAIN linked.forward THEN linked.forward[userId] ELSE EmptyObj

\* InMemoryLinkStore.findByProvider: the user, or null.
findByProvider(linked, provider, providerId) ==
    IF reverseKey(provider, providerId) \in DOMAIN linked.reverse
    THEN linked.reverse[reverseKey(provider, providerId)] ELSE Null

\* accountLinker.link(userId, provider, providerId)
LinkAccount ==
    /\ \E userId \in LinkUsers, provider \in Providers, providerId \in UserIds :
          links' = link(links, userId, provider, providerId)
    /\ UNCHANGED <<config, cb, tokenStore, now, session, minted, call, rf, jar, limiter, redis, twitter, emitter>>

\* accountLinker.unlink(userId, provider)
UnlinkAccount ==
    /\ \E userId \in LinkUsers, provider \in Providers :
          links' = unlink(links, userId, provider).links
    /\ UNCHANGED <<config, cb, tokenStore, now, session, minted, call, rf, jar, limiter, redis, twitter, emitter>>

\* new AccountLinker(): the default store, empty.
InitLinks ==
    /\ config \in {c \in Configs : /\ c.allowedRedirects = NoAllowList
                                   /\ ~c.onSuccess /\ ~c.onError
                                   /\ c.maxAge = MaxLifetime /\ c.secure
                                   /\ c.adapter = "express" /\ Plain(c)}
    /\ cb = [p \in Reqs |-> IdleRequest]
    /\ tokenStore = EmptyObj
    /\ now = 0
    /\ session = NoToken
    /\ minted = EmptyObj
    /\ call = NoCall
    /\ links = NoLinks
    /\ rf = NoRefresh
    /\ jar = "empty"
    /\ limiter = NoLimiter
    /\ redis = NoRedis
    /\ twitter = NoTwitter
    /\ emitter = NoListeners

NextLinks == LinkAccount \/ UnlinkAccount

SpecLinks == InitLinks /\ [][NextLinks]_vars

----------------------------------------------------------------------------
(* The Token Store on its own (token-store.js) *)

\* The keys the application uses: one provider's users.
StoreKeys == {Key("google", userId) : userId \in UserIds}

\* The application calls tokenStore.set(key, tokens).
TokenStoreSet ==
    /\ Quiet
    /\ \E key \in StoreKeys, tokens \in ExchangeTokenSets :
          tokenStore' = StoreSet(tokenStore, key, tokens, now)
    /\ UNCHANGED <<config, cb, now, session, minted, call, links, rf, jar, limiter, redis, twitter, emitter>>

\* The application calls tokenStore.delete(key).
TokenStoreDelete ==
    /\ Quiet
    /\ \E key \in DOMAIN tokenStore : tokenStore' = StoreDelete(tokenStore, key)
    /\ UNCHANGED <<config, cb, now, session, minted, call, links, rf, jar, limiter, redis, twitter, emitter>>

\* The application calls tokenStore.isExpired(key).
IsExpired ==
    /\ Quiet
    /\ \E key \in StoreKeys :
          call' = [op |-> "isExpired", key |-> key, at |-> now,
                   result |-> isExpired(tokenStore, key, now)]
    /\ UNCHANGED <<config, cb, tokenStore, now, session, minted, links, rf, jar, limiter, redis, twitter, emitter>>

\* new TokenStore(): empty.
InitTokenStore ==
    /\ config \in {c \in Configs : /\ c.allowedRedirects = NoAllowList
                                   /\ ~c.onSuccess /\ ~c.onError
                                   /\ c.maxAge = MaxLifetime /\ c.secure
                                   /\ c.adapter = "express" /\ Plain(c)}
    /\ cb = [p \in Reqs |-> IdleRequest]
    /\ tokenStore = EmptyObj
    /\ now = 0
    /\ session = NoToken
    /\ minted = EmptyObj
    /\ call = NoCall
    /\ links = NoLinks
    /\ rf = NoRefresh
    /\ jar = "empty"
    /\ limiter = NoLimiter
    /\ redis = NoRedis
    /\ twitter = NoTwitter
    /\ emitter = NoListeners

NextTokenStore == Tick \/ TokenStoreSet \/ TokenStoreDelete \/ IsExpired \/ Return

SpecTokenStore == InitTokenStore /\ [][NextTokenStore]_vars

----------------------------------------------------------------------------
(* Two callback requests at once *)

OverlapReqs == {"r1", "r2"}

\* Two requests arrive at the callback route of an application with no
\* hooks; neither waits for the other.
InitOverlap ==
    /\ config \in {c \in Configs : /\ c.allowedRedirects = NoAllowList
                                   /\ ~c.onSuccess /\ ~c.onError
                                   /\ c.maxAge = MaxLifetime /\ c.secure
                                   /\ c.adapter = "express" /\ Plain(c)}
    /\ cb = [p \in OverlapReqs |-> IdleRequest]
    /\ tokenStore = EmptyObj
    /\ now = 0
    /\ session = NoToken
    /\ minted = EmptyObj
    /\ call = NoCall
    /\ links = NoLinks
    /\ rf = NoRefresh
    /\ jar = "empty"
    /\ limiter = NoLimiter
    /\ redis = NoRedis
    /\ twitter = NoTwitter
    /\ emitter = NoListeners

NextOverlap ==
    \/ Tick
    \/ \E p \in OverlapReqs :
          \/ HandleCallback(p)
          \/ ExchangeCode(p)
          \/ GetProfile(p)
          \/ StoreTokens(p)
          \/ OnSuccess(p)
          \/ HandleCallbackError(p)

SpecOverlap == InitOverlap /\ [][NextOverlap]_vars

----------------------------------------------------------------------------
(* Claims about the callback route, checked under SpecCallback *)

\* The request has left handleCallback or handleCallbackError with a redirect.
Redirected(r) == r.pc \in {"resolved", "errorRedirect"}

SuccessEffects ==
    {"exchangeCode", "getProfile", "tokenStore.set", "onSuccess", "emit:success",
     "createToken"}

\* C1: a callback whose returned state is empty or absent, or differs from the
\* stored state (an absent stored state included), is rejected with the CSRF
\* error and has none of the effects of a login: no code exchange, no profile
\* fetch, no Token Store write, no onSuccess call, no success notification,
\* no session cookie.
C1_CsrfRejected ==
    \A p \in Reqs :
        LET r == cb[p]
        IN  (r.pc # "idle" /\ (r.state \in {Undefined, ""} \/ r.state # r.storedState))
            => /\ r.error = CsrfError
               /\ r.pc \in {"rejected", "errorRedirect", "threw"}
               /\ \A i \in DOMAIN r.fx : r.fx[i] \notin SuccessEffects
               /\ r.tokens = EmptyObj /\ r.user = EmptyObj
               /\ r.sessionCookie = EmptyObj
               /\ tokenStore = EmptyObj

\* C1 witness: both states present and different, and the rejection handled.
C1_Witness ==
    \E p \in Reqs :
        /\ cb[p].pc = "errorRedirect"
        /\ cb[p].state = "s1" /\ cb[p].storedState = "s2" /\ cb[p].code = "c1"
        /\ cb[p].error = CsrfError

\* C2 (as claimed): whatever allowedRedirects is, a hook-supplied redirect
\* target that begins with // comes back from handleCallback and from
\* handleCallbackError as /.
C2_ProtocolRelativeBlocked ==
    \A p \in Reqs :
        (/\ Redirected(cb[p])
         /\ Has(cb[p].hookResult, "redirect")
         /\ startsWith(cb[p].hookResult["redirect"], <<Slash, Slash>>))
        => cb[p].redirectURL = Root

ParsesAbsolute(target) == ParseURL(target).ok

Listed(target, list) ==
    \E i \in DOMAIN list : target = list[i] \/ ParseURL(target).origin = list[i]

\* C3: with a non-empty allowedRedirects, a target that parses as an absolute
\* URL is returned unchanged when the target or its origin equals an
\* allow-list entry, and is replaced by / otherwise.
C3_AllowListDecides ==
    \A p \in Reqs :
        LET r == cb[p]
            list == config.allowedRedirects.list
        IN  (/\ Redirected(r)
             /\ config.allowedRedirects.set /\ Len(list) > 0
             /\ ParsesAbsolute(r.redirect))
            => /\ Listed(r.redirect, list) => r.redirectURL = r.redirect
               /\ ~Listed(r.redirect, list) => r.redirectURL = Root

\* C3 witness: a target kept because of its origin alone, by handleCallback.
C3_Witness ==
    \E p \in Reqs :
        /\ cb[p].pc = "resolved"
        /\ cb[p].redirect = <<"https:", "good.com">>
        /\ cb[p].redirectURL = cb[p].redirect
        /\ config.allowedRedirects = AllowList(<<GoodOrigin>>)

NoAllowListConfigured ==
    ~config.allowedRedirects.set \/ Len(config.allowedRedirects.list) = 0

AbsoluteHttp(target) ==
    \/ startsWith(target, <<"http:", Slash, Slash>>)
    \/ startsWith(target, <<"https:", Slash, Slash>>)

OneSlash(target) ==
    Len(target) >= 1 /\ target[1] = Slash /\ (Len(target) >= 2 => target[2] # Slash)

\* C4 (as claimed): without an allow-list, a target beginning with http:// or
\* https:// becomes /, a target beginning with exactly one / is returned
\* unchanged, and every target that is neither is returned unchanged.
C4_Original ==
    \A p \in Reqs :
        LET r == cb[p]
        IN  (Redirected(r) /\ NoAllowListConfigured)
            => /\ AbsoluteHttp(r.redirect) => r.redirectURL = Root
               /\ OneSlash(r.redirect) => r.redirectURL = r.redirect
               /\ (~AbsoluteHttp(r.redirect) /\ ~OneSlash(r.redirect))
                      => r.redirectURL = r.redirect

\* C4 (amended): the same, except that a target beginning with // is none of
\* the targets returned unchanged: it becomes /.
C4_NoAllowList ==
    \A p \in Reqs :
        LET r == cb[p]
            twoSlashes == startsWith(r.redirect, <<Slash, Slash>>)
        IN  (Redirected(r) /\ NoAllowListConfigured)
            => /\ AbsoluteHttp(r.redirect) => r.redirectURL = Root
               /\ OneSlash(r.redirect) => r.redirectURL = r.redirect
               /\ twoSlashes => r.redirectURL = Root
               /\ (~AbsoluteHttp(r.redirect) /\ ~OneSlash(r.redirect) /\ ~twoSlashes)
                      => r.redirectURL = r.redirect

\* C4 witness: an http:// target replaced by /, no allow-list being set.
C4_Witness ==
    \E p \in Reqs :
        /\ Redirected(cb[p])
        /\ ~config.allowedRedirects.set
        /\ cb[p].redirect = <<"http:", Slash, Slash>>
        /\ cb[p].redirectURL = Root

----------------------------------------------------------------------------
(* Claims about sessions and protect(), checked under SpecSession *)

\* The tokens a request carries: its parsed cookie and its raw Cookie header.
Carried(req) == {req.cookies, req.header} \ {NoToken}

Unauthenticated(options) ==
    IF Has(options, "redirect")
    THEN [kind |-> "redirect", url |-> options["redirect"]]
    ELSE [kind |-> "json", status |-> 401, error |-> "Unauthorized"]

Forbidden(options) ==
    IF Has(options, "forbiddenRedirect")
    THEN [kind |-> "redirect", url |-> options["forbiddenRedirect"]]
    ELSE [kind |-> "json", status |-> 403, error |-> "Forbidden"]

\* C5: whatever roles or permissions protect() requires, a request that
\* carries no session token, or only tokens that fail verification, gets the
\* Unauthenticated outcome (the redirect to options.redirect when one is set,
\* else 401 {error: 'Unauthorized'}), never the Forbidden one, and is not
\* passed on.
C5_UnauthenticatedNotForbidden ==
    (/\ call.op = "protect"
     /\ \A tk \in Carried(call.req) : jwtVerify(tk, Secret, epoch(call.at)) # "ok")
    => /\ call.result.res = Unauthenticated(call.options)
       /\ call.result.res # Forbidden(call.options)
       /\ ~call.result.next

\* C5 witness: roles are required, a token with a forged signature is
\* presented while the session is alive, and the answer is the 401.
C5_Witness ==
    /\ call.op = "protect"
    /\ Required(call.options, "roles") /\ ~Has(call.options, "redirect")
    /\ session # NoToken /\ epoch(call.at) < session.payload["exp"]
    /\ call.req = Request(NoToken, SignedBy(OtherSecret, session.header,
                                            Escalated(session.payload)))
    /\ call.result.res = [kind |-> "json", status |-> 401, error |-> "Unauthorized"]

\* The set of the strings user[k] lists, empty when user has no k.
Held(user, k) == IF Has(user, k) THEN Range(user[k]) ELSE {}

\* C6: for a request whose token verifies, with roles or permissions
\* required: the outcome is Forbidden if and only if a non-empty required
\* list shares no element with the user's list of the same kind (the empty
\* list when absent); otherwise the request is passed on.  One shared
\* element suffices.
C6_ForbiddenIffNoMatch ==
    (/\ call.op = "protect"
     /\ getTokenFromRequest(call.req) # NoToken
     /\ jwtVerify(getTokenFromRequest(call.req), Secret, epoch(call.at)) = "ok"
     /\ Required(call.options, "roles") \/ Required(call.options, "permissions"))
    => LET user == verifyToken(getTokenFromRequest(call.req), Secret, epoch(call.at)).user
           miss(k) == /\ Required(call.options, k)
                      /\ Range(call.options[k]) \cap Held(user, k) = {}
       IN  /\ call.result.res = Forbidden(call.options)
                <=> (miss("roles") \/ miss("permissions"))
           /\ ~(miss("roles") \/ miss("permissions"))
                => (call.result.next /\ call.result.res = NoResponse)
           /\ call.result.next <=> call.result.res = NoResponse

\* C6 witness: two roles required, the user holds one of them, nothing else
\* required, and the request is passed on.
C6_Witness ==
    /\ call.op = "protect"
    /\ Has(call.options, "roles") /\ call.options["roles"] = <<"admin", "editor">>
    /\ ~Has(call.options, "permissions")
    /\ Has(call.result.user, "roles") /\ call.result.user["roles"] = <<"editor">>
    /\ call.result.next

C9_RoundTrip ==
    (call.op = "verifyToken" /\ call.token = session /\ call.result.ok)
    => LET u == minted.user
           extra == minted.extra
           got == call.result.user
       IN  /\ \A k \in DOMAIN u : Get(got, k) = u[k]
           /\ DOMAIN got \subseteq DOMAIN u \cup {"roles", "permissions"}
           /\ \A k \in {"roles", "permissions"} :
                 IF Has(extra, k) THEN Has(got, k) /\ got[k] = extra[k]
                 ELSE ~Has(got, k)

\* C9 witness: a round trip with roles and permissions both supplied.
C9_Witness ==
    /\ call.op = "verifyToken" /\ call.token = session /\ call.result.ok
    /\ minted.extra = [roles |-> <<"editor">>, permissions |-> <<"write:posts">>]
    /\ call.result.user["permissions"] = <<"write:posts">>

\* C10 (as claimed): whatever makes verifyToken fail, the error the caller
\* gets is the one a malformed string gets: nothing in it tells the causes
\* apart.
C10_UniformFailure ==
    (call.op = "verifyToken" /\ ~call.result.ok)
    => call.result.error = verifyToken(GarbageToken, Secret, epoch(call.at)).error

----------------------------------------------------------------------------
(* Claims about the callback route and its adapters, under SpecCallback *)

\* The vendor's identity response is valid: Apple delivered an id_token with
\* the exchange; the userinfo endpoint of another provider did not fail.
IdentityValid(r) ==
    IF r.provider = "apple"
    THEN Has(r.tokens, "idToken")
    ELSE r.error # ProviderError("Failed to fetch user profile")

\* C11 (as claimed): for every provider, Apple included, a callback with a
\* matching non-empty state, a code, a successful exchange and a valid
\* identity response does not fail (an onSuccess hook that throws apart),
\* and when it has returned, it has returned a session cookie for the user.
C11_EveryProviderCompletes ==
    \A p \in Reqs :
        LET r == cb[p]
        IN  (/\ r.tokens # EmptyObj
             /\ IdentityValid(r)
             /\ r.error # HookError)
            => /\ r.error = NoError
               /\ r.pc \notin {"rejected", "errorRedirect", "threw"}
               /\ r.pc = "resolved"
                    => r.sessionCookie.value.payload["user"] = JSONRoundTrip(r.user)

EffectOrder ==
    <<"exchangeCode", "getProfile", "tokenStore.set", "onSuccess", "emit:success",
      "createToken">>

Rank(e) == CHOOSE i \in DOMAIN EffectOrder : EffectOrder[i] = e

\* The fields of a stored entry but its storedAt stamp.
Unstamped(entry) == [k \in DOMAIN entry \ {"storedAt"} |-> entry[k]]

\* C12: the effects of one handleCallback happen in the order exchange,
\* profile fetch, Token Store write, onSuccess, success notification, token
\* minting, none of them twice; the write is under {providerName}:{user.id},
\* and what onSuccess reads from the Token Store under that key is the
\* TokenSet the exchange returned.
C12_EffectOrder ==
    \A p \in Reqs :
        LET r == cb[p]
            done(e) == \E i \in DOMAIN r.fx : r.fx[i] = e
        IN  /\ \A i, j \in DOMAIN r.fx :
                 (i < j /\ r.fx[i] \in SuccessEffects /\ r.fx[j] \in SuccessEffects)
                 => Rank(r.fx[i]) < Rank(r.fx[j])
            /\ done("tokenStore.set")
                 => /\ <<r.provider, ":", r.user.id>> \in DOMAIN tokenStore
                    /\ Unstamped(tokenStore[<<r.provider, ":", r.user.id>>]) = r.tokens
            /\ done("onSuccess") => Unstamped(r.hookSaw) = r.tokens
            /\ done("createToken") => (done("emit:success") /\ done("tokenStore.set"))

\* C12 witness: a completed callback whose hook ran and read the new tokens.
C12_Witness ==
    \E p \in Reqs :
        /\ cb[p].pc = "resolved"
        /\ cb[p].fx = EffectOrder
        /\ cb[p].hookSaw # NoEntry
        /\ cb[p].hookSaw["accessToken"] = cb[p].tokens["accessToken"]

\* C13 (as claimed): when the onSuccess hook throws or rejects, handleCallback
\* still resolves, with a session cookie and the redirect /.
C13_HookFailureSwallowed ==
    \A p \in Reqs :
        cb[p].error = HookError
        => /\ cb[p].pc = "resolved"
           /\ cb[p].sessionCookie # EmptyObj
           /\ cb[p].redirectURL = Root

\* C16 (as claimed): whatever fails while the callback completes, the hooks
\* included, no error escapes the route, and a route that is done has sent
\* one redirect, to the URL handleCallback or handleCallbackError returned.
C16_AlwaysOneRedirect ==
    \A p \in Reqs :
        /\ cb[p].pc # "threw"
        /\ cb[p].pc \in {"resolved", "errorRedirect"}
             => (cb[p].res.sent /\ cb[p].res.location = cb[p].redirectURL)

\* C18 (as claimed): in every adapter the response to a callback request, on
\* the success path and on the error path, carries the cookie that clears
\* authsnap_state.
C18_StateCookieCleared ==
    \A p \in Reqs :
        cb[p].res.sent => ClearStateCookie \in cb[p].res.setCookie

----------------------------------------------------------------------------
(* Claims about login, logout, listeners and refresh, under SpecLifecycle *)

\* C14 (as claimed): when the onBeforeAuth hook throws, handleLogin still
\* emits the login notification and returns { redirectURL, state, secure }.
C14_LoginSurvivesHook ==
    call.op = "handleLogin"
    => /\ call.result.ok
       /\ \E i \in DOMAIN call.result.fx : call.result.fx[i] = "emit:login"
       /\ DOMAIN call.result.value = {"redirectURL", "state", "secure"}

\* C15 (as claimed): when the token endpoint answered the refresh and the
\* onTokenRefresh hook then throws, getValidTokens / forceRefresh still
\* return the new TokenSet, and the Token Store holds it under the key.
C15_RefreshSurvivesHook ==
    (rf.pc = "returned" /\ rf.outcome = "success")
    => /\ rf.result # NoEntry
       /\ StoreGet(rf.after, rf.key) # NoEntry
       /\ StoreGet(tokenStore, rf.key) # NoEntry

\* C17: a listener that throws never makes handleLogin, handleCallback,
\* handleCallbackError, handleLogout or a token refresh throw, and never
\* changes what they return: login and logout return what they return with
\* no listener subscribed, the callback ends in its redirect, and a refresh
\* the token endpoint answered returns the TokenSet it stored.
C17_ListenersNeverBreak ==
    /\ call.op = "handleLogin"
       => /\ call.result.error # ListenerError
          /\ call.result = handleLogin([config EXCEPT !.listeners = "none"],
                                       call.provider, CallbackURL(call.provider),
                                       call.state)
    /\ call.op = "handleLogout"
       => /\ call.result.error # ListenerError
          /\ call.result = handleLogout([config EXCEPT !.listeners = "none"],
                                        call.before.tokenStore, call.before.links).out
    /\ \A p \in Reqs :
          /\ cb[p].pc # "threw"
          /\ cb[p].error # ListenerError
          /\ "emit:success" \in Range(cb[p].fx) => cb[p].pc = "resolved"
          /\ "emit:error" \in Range(cb[p].fx) => cb[p].pc = "errorRedirect"
    /\ (rf.pc = "returned" /\ rf.outcome = "success"
        /\ config.onTokenRefresh # "throws")
       => /\ rf.result # NoEntry
          /\ Unstamped(StoreGet(rf.after, rf.key)) = rf.result

\* C17 witness: with a throwing listener subscribed, a login that completed
\* and a refresh that returned its new TokenSet.
C17_Witness ==
    /\ config.listeners = "throws"
    /\ \E p \in Reqs : cb[p].pc = "resolved"
    /\ rf.pc = "returned" /\ rf.outcome = "success"
    /\ rf.result # NoEntry
    /\ "emit:token:refresh" \in Range(rf.fx)

\* C19: handleLogout emits the logout notification and returns the header
\* that clears the session cookie, and does nothing else: the Token Store
\* and the account links are as they were before the call, and the session
\* token issued before the logout verifies after it exactly as long as it
\* has not reached its own expiry.
C19_LogoutOnlyClearsCookie ==
    /\ call.op = "handleLogout"
       => /\ call.result.ok
          /\ call.result.value = [clearCookie |-> buildClearCookieHeader(CookieName)]
          /\ call.result.fx = <<"emit:logout">>
          /\ tokenStore = call.before.tokenStore
          /\ links = call.before.links
    /\ (call.op = "verifyToken" /\ jar = "cleared" /\ call.token = session)
       => (call.result.ok <=> epoch(call.at) < session.payload["exp"])

\* C19 witness: after a logout, with provider tokens stored and an account
\* linked, the old session token is presented and verifies.
C19_Witness ==
    /\ call.op = "verifyToken" /\ jar = "cleared" /\ call.token = session
    /\ call.result.ok
    /\ tokenStore # EmptyObj
    /\ links # NoLinks

\* C20: getValidTokens calls the token endpoint exactly when the entry
\* exists, its expiresAt is set and lies in the past, and it has a refresh
\* token; in every other case it makes no network call, leaves the Token
\* Store as it was, and returns the stored TokenSet when that is not expired
\* and null when there is none or it is expired with no refresh token.
C20_RefreshIffExpiredAndRefreshable ==
    (rf.pc # "idle" /\ rf.op = "getValidTokens")
    => LET entry == StoreGet(rf.before, rf.key)
           exists == entry # NoEntry
           expired == exists /\ entry["expiresAt"] # 0 /\ rf.at > entry["expiresAt"]
           refreshable == exists /\ ~Falsy(entry["refreshToken"])
       IN  /\ rf.exchanges = 1 <=> (exists /\ expired /\ refreshable)
           /\ rf.exchanges \in {0, 1}
           /\ rf.exchanges = 0
              => /\ rf.pc = "returned"
                 /\ rf.after = rf.before
                 /\ tokenStore = rf.before
                 /\ rf.result = IF exists /\ ~expired THEN entry ELSE NoEntry

\* C20 witness: a stored TokenSet with a refresh token that is not expired
\* yet is returned as it is, with no call to the token endpoint.
C20_Witness ==
    /\ rf.pc = "returned" /\ rf.op = "getValidTokens"
    /\ rf.exchanges = 0
    /\ rf.result # NoEntry
    /\ ~Falsy(rf.result["refreshToken"])
    /\ rf.result["expiresAt"] # 0

\* C21: when the refresh exchange fails, getValidTokens and forceRefresh
\* return null after that one exchange, the entry is gone from the Token
\* Store, and a getValidTokens for the key right after returns null without
\* calling the token endpoint.
C21_FailedRefreshDeletes ==
    (rf.pc = "returned" /\ rf.outcome = "failure")
    => /\ rf.result = NoEntry
       /\ rf.exchanges = 1
       /\ rf.key \notin DOMAIN rf.after
       /\ rf.key \notin DOMAIN tokenStore
       /\ LET next == getValidTokens(tokenStore, rf.key, now)
          IN  ~next.refresh /\ next.result = NoEntry /\ next.store = tokenStore

\* C21 witness: the refresh of a stored entry failed and the entry is gone.
C21_Witness ==
    /\ rf.pc = "returned" /\ rf.outcome = "failure"
    /\ rf.key \in DOMAIN rf.before
    /\ rf.key \notin DOMAIN tokenStore

\* C22 (as claimed): after every refresh exchange the token endpoint
\* answered, the entry under the key is exactly the new TokenSet, with the
\* provider's new refresh token if it issued one and the one stored before
\* otherwise, never null.
C22_RefreshReplacesEntry ==
    (rf.pc = "returned" /\ rf.outcome = "success")
    => LET entry == StoreGet(rf.after, rf.key)
       IN  /\ entry # NoEntry
           /\ ~Falsy(entry["refreshToken"])
           /\ Unstamped(entry)
                = [accessToken |-> rf.response.access_token,
                   refreshToken |-> IF Falsy(rf.response.refresh_token)
                                    THEN rf.current["refreshToken"]
                                    ELSE rf.response.refresh_token,
                   expiresAt |-> IF rf.response.expires_in = 0 THEN 0
                                 ELSE entry["storedAt"]
                                      + rf.response.expires_in * TicksPerSecond,
                   tokenType |-> "Bearer", scope |-> Null]

\* C23: forceRefresh calls the token endpoint exactly when the entry exists
\* and has a refresh token, expired or not; otherwise it returns null with
\* no network call and the Token Store as it was.
C23_ForceRefreshIgnoresExpiry ==
    (rf.pc # "idle" /\ rf.op = "forceRefresh")
    => LET entry == StoreGet(rf.before, rf.key)
           refreshable == entry # NoEntry /\ ~Falsy(entry["refreshToken"])
       IN  /\ rf.exchanges = 1 <=> refreshable
           /\ rf.exchanges \in {0, 1}
           /\ rf.exchanges = 0
              => /\ rf.pc = "returned"
                 /\ rf.result = NoEntry
                 /\ rf.after = rf.before
                 /\ tokenStore = rf.before

\* C23 witness: a forced refresh of an entry that has not expired went to
\* the token endpoint and returned the new TokenSet.
C23_Witness ==
    /\ rf.pc = "returned" /\ rf.op = "forceRefresh"
    /\ rf.exchanges = 1 /\ rf.outcome = "success"
    /\ rf.before[rf.key]["expiresAt"] # 0
    /\ rf.at <= rf.before[rf.key]["expiresAt"]
    /\ rf.result # NoEntry

----------------------------------------------------------------------------
(* More claims about the callback route, under SpecCallback *)

\* C30: a callback whose state is non-empty and equals the stored state but
\* whose code is absent or empty fails with the missing-code error, with no
\* call to the provider and no write to the Token Store; when the state is
\* wrong too, the error is the CSRF error.
C30_MissingCode ==
    \A p \in Reqs :
        (cb[p].pc # "idle" /\ (cb[p].code = Undefined \/ cb[p].code = ""))
        => /\ cb[p].error
                = IF cb[p].state \notin {Undefined, ""}
                     /\ cb[p].state = cb[p].storedState
                  THEN NoCodeError ELSE CsrfError
           /\ "exchangeCode" \notin Range(cb[p].fx)
           /\ "tokenStore.set" \notin Range(cb[p].fx)
           /\ tokenStore = EmptyObj

\* C30 witness: both checks fail and the request is answered with the CSRF
\* error.
C30_Witness ==
    \E p \in Reqs :
        /\ cb[p].pc = "errorRedirect"
        /\ cb[p].code = ""
        /\ cb[p].state = "s1" /\ cb[p].storedState = "s2"
        /\ cb[p].error = CsrfError

----------------------------------------------------------------------------
(* Claims about the rate limiter, under SpecRateLimit *)

\* The positions in the record of the allowed checks of the key of call i
\* that were made before it.
AllowedBefore(i) ==
    {j \in 1..(i - 1) : /\ limiter.log[j].op = "check"
                        /\ limiter.log[j].key = limiter.log[i].key
                        /\ limiter.log[j].allowed}

\* The times of the allowed checks of a key, in the order they were made.
AllowedTimes(key) ==
    LET mine(e) == e.op = "check" /\ e.key = key /\ e.allowed
        kept == SelectSeq(limiter.log, mine)
    IN  [n \in DOMAIN kept |-> kept[n].at]

\* C26: check(key) returns true exactly when fewer than max allowed calls
\* for the key lie within the last windowMs; so the allowed calls of a key
\* within any stretch shorter than windowMs are at most max, and no key has
\* more than max timestamps stored.
C26_SlidingWindow ==
    /\ \A i \in DOMAIN limiter.log :
          limiter.log[i].op = "check"
          => LET recent == {j \in AllowedBefore(i) :
                              limiter.log[i].at - limiter.log[j].at < limiter.windowMs}
             IN  /\ limiter.log[i].allowed <=> Cardinality(recent) < limiter.max
                 /\ limiter.log[i].allowed => Cardinality(recent) + 1 <= limiter.max
    /\ \A key \in DOMAIN limiter.store : Len(limiter.store[key]) <= limiter.max

\* C26 witness: a call denied with max allowed calls inside the window.
C26_Witness ==
    \E i \in DOMAIN limiter.log :
        /\ limiter.log[i].op = "check" /\ ~limiter.log[i].allowed
        /\ Cardinality(AllowedBefore(i)) = limiter.max

\* C27: a denied check stores no timestamp (what a key has stored are the
\* times of its latest allowed calls), and a check made when windowMs has
\* passed since the oldest of the last max allowed calls is allowed, denied
\* calls in between or not.
C27_DeniedNotCounted ==
    /\ \A key \in DOMAIN limiter.store :
          LET stored == limiter.store[key]
              times == AllowedTimes(key)
          IN  /\ Len(stored) <= Len(times)
              /\ \A n \in DOMAIN stored :
                    stored[n] = times[Len(times) - Len(stored) + n]
    /\ \A i \in DOMAIN limiter.log :
          limiter.log[i].op = "check"
          => LET times == AllowedTimes(limiter.log[i].key)
                 before == Cardinality(AllowedBefore(i))
             IN  (before < limiter.max
                  \/ limiter.log[i].at - times[before - limiter.max + 1]
                       >= limiter.windowMs)
                 => limiter.log[i].allowed

\* C27 witness: an allowed call, then a denied one, then, the window over,
\* an allowed one, all of one key.
C27_Witness ==
    \E i, j, k \in DOMAIN limiter.log :
        /\ i < j /\ j < k
        /\ limiter.log[i].op = "check" /\ limiter.log[j].op = "check"
        /\ limiter.log[k].op = "check"
        /\ limiter.log[i].key = limiter.log[j].key
        /\ limiter.log[j].key = limiter.log[k].key
        /\ limiter.log[i].allowed /\ ~limiter.log[j].allowed /\ limiter.log[k].allowed
        /\ Cardinality(AllowedBefore(k)) >= limiter.max

\* What the checks of one key return when no other key is ever used: the
\* checks at the given times, made one after another on a limiter l.
RECURSIVE Alone(_, _, _)
Alone(l, key, times) ==
    IF times = <<>> THEN <<>>
    ELSE LET done == check(l, key, Head(times))
         IN  <<done.allowed>> \o Alone([l EXCEPT !.store = done.store], key, Tail(times))

\* The checks of a key on record: their times, and what they returned.
ChecksOf(key) ==
    LET mine(e) == e.op = "check" /\ e.key = key
    IN  SelectSeq(limiter.log, mine)

\* C28: what the checks of a key return is what they return when the other
\* keys are never checked or reset; and after reset(k) the next max checks
\* of k are allowed.
C28_KeysIndependent ==
    \A key \in LimiterKeys :
        LET mine == ChecksOf(key)
            fresh == createRateLimiter(limiter.windowMs, limiter.max)
        IN  /\ [n \in DOMAIN mine |-> mine[n].allowed]
                 = Alone(fresh, key, [n \in DOMAIN mine |-> mine[n].at])
            /\ \A n \in DOMAIN mine : n <= limiter.max => mine[n].allowed
            /\ Timestamps(limiter, key) # <<>> => mine # <<>>

\* C28 witness: a key that held max timestamps is reset and checked again
\* at that very time, and the call is allowed; the other key has been
\* checked too.
C28_Witness ==
    \E m, i \in DOMAIN limiter.log :
        /\ m < i
        /\ limiter.log[m].op = "reset" /\ limiter.log[m].full
        /\ limiter.log[i].op = "check" /\ limiter.log[i].key = limiter.log[m].key
        /\ limiter.log[i].at = limiter.log[m].at
        /\ limiter.log[i].allowed
        /\ \E o \in DOMAIN limiter.log : limiter.log[o].key \notin {limiter.log[m].key, ""}

----------------------------------------------------------------------------
(* The claim about the link store, under SpecLinks *)

\* C29 (as claimed): after any sequence of link and unlink, findByProvider
\* (p, id) is u exactly when getLinkedAccounts(u)[p] is id, and no user is
\* left with an empty forward entry.
C29_ReverseConsistent ==
    /\ \A u \in LinkUsers, p \in Providers, id \in UserIds :
          findByProvider(links, p, id) = u
          <=> (p \in DOMAIN getLinkedAccounts(links, u)
               /\ getLinkedAccounts(links, u)[p] = id)
    /\ \A u \in DOMAIN links.forward : links.forward[u] # EmptyObj

----------------------------------------------------------------------------
(* The claim about the Token Store, under SpecTokenStore *)

\* C24: isExpired(key) is true exactly when the key is absent or the entry
\* has an expiresAt and the clock is past it; with no expiresAt, and up to
\* and including the instant expiresAt, it is false.
C24_IsExpired ==
    call.op = "isExpired"
    => /\ call.result
             <=> (\/ call.key \notin DOMAIN tokenStore
                  \/ /\ tokenStore[call.key]["expiresAt"] # 0
                     /\ call.at > tokenStore[call.key]["expiresAt"])
       /\ (call.key \in DOMAIN tokenStore
           /\ call.at = tokenStore[call.key]["expiresAt"]) => ~call.result

\* C24 witness: asked at the very instant expiresAt, the store answers that
\* the entry has not expired.
C24_Witness ==
    /\ call.op = "isExpired"
    /\ call.key \in DOMAIN tokenStore
    /\ tokenStore[call.key]["expiresAt"] # 0
    /\ call.at = tokenStore[call.key]["expiresAt"]
    /\ ~call.result

----------------------------------------------------------------------------
(* The claim about overlapping callbacks, under SpecOverlap *)

\* The requests that have written the Token Store under key.
Writers(key) ==
    {p \in OverlapReqs : cb[p].wrote > 0 /\ Key(cb[p].provider, cb[p].user.id) = key}

\* C25: with two handleCallback executions under way at once, the entry
\* under a key is, field for field, the TokenSet of the request that wrote
\* that key last (with the stamp the store adds), never a mixture of two.
C25_LastWriteWins ==
    \A key \in DOMAIN tokenStore :
        /\ Writers(key) # {}
        /\ \A p \in Writers(key) :
              (\A q \in Writers(key) : cb[q].wrote <= cb[p].wrote)
              => /\ DOMAIN tokenStore[key] = DOMAIN cb[p].tokens \cup {"storedAt"}
                 /\ Unstamped(tokenStore[key]) = cb[p].tokens

\* C25 witness: one request has written its tokens and is still running
\* when the other writes different tokens under the same key.
C25_Witness ==
    \E p, q \in OverlapReqs :
        /\ cb[p].pc = "onSuccess" /\ cb[p].wrote = 1
        /\ cb[q].wrote = 2
        /\ Key(cb[p].provider, cb[p].user.id) = Key(cb[q].provider, cb[q].user.id)
        /\ cb[p].tokens # cb[q].tokens
        /\ Unstamped(tokenStore[Key(cb[q].provider, cb[q].user.id)]) = cb[q].tokens

\* C31 (as claimed): with no allow-list configured, a redirect target that
\* is an absolute URL, of whatever scheme and letter case, is replaced by /.
C31_AbsoluteBlockedWithoutList ==
    \A p \in Reqs :
        (Redirected(cb[p]) /\ NoAllowListConfigured /\ ParsesAbsolute(cb[p].redirect))
        => cb[p].redirectURL = Root

----------------------------------------------------------------------------
(* More claims about protect(), under SpecSession *)

\* The token the middleware picks verifies at the time of the call.
Verifies ==
    /\ getTokenFromRequest(call.req) # NoToken
    /\ jwtVerify(getTokenFromRequest(call.req), Secret, epoch(call.at)) = "ok"

\* The verified user holds one of the strings options[k] requires.
Matches(k) ==
    LET user == verifyToken(getTokenFromRequest(call.req), Secret, epoch(call.at)).user
    IN  Range(call.options[k]) \cap Held(user, k) # {}

\* C32: with non-empty roles and non-empty permissions both required, a
\* verified user is passed on only if it holds one of the roles and also
\* one of the permissions; a requirement that is absent or an empty list
\* checks nothing.
C32_BothRequirements ==
    (call.op = "protect" /\ Verifies)
    => /\ (Required(call.options, "roles") /\ Required(call.options, "permissions"))
          => (call.result.next <=> (Matches("roles") /\ Matches("permissions")))
       /\ (Required(call.options, "roles") /\ ~Required(call.options, "permissions"))
          => (call.result.next <=> Matches("roles"))
       /\ (~Required(call.options, "roles") /\ Required(call.options, "permissions"))
          => (call.result.next <=> Matches("permissions"))
       /\ (~Required(call.options, "roles") /\ ~Required(call.options, "permissions"))
          => call.result.next

\* C32 witness: roles and permissions are required, the user holds a
\* required role and no required permission, and the answer is Forbidden.
C32_Witness ==
    /\ call.op = "protect" /\ Verifies
    /\ Required(call.options, "roles") /\ Required(call.options, "permissions")
    /\ Matches("roles") /\ ~Matches("permissions")
    /\ call.result.res = Forbidden(call.options)
    /\ ~call.result.next

\* C33: every run of the middleware ends in exactly one of three ways:
\* next() with no response written, the Unauthenticated response, or the
\* Forbidden response; and next() runs exactly when the token verifies and
\* every role and permission requirement configured is met.
C33_OneOutcome ==
    call.op = "protect"
    => /\ \/ call.result.next /\ call.result.res = NoResponse
          \/ ~call.result.next /\ call.result.res = Unauthenticated(call.options)
          \/ ~call.result.next /\ call.result.res = Forbidden(call.options)
       /\ call.result.next
             <=> /\ Verifies
                 /\ Required(call.options, "roles") => Matches("roles")
                 /\ Required(call.options, "permissions") => Matches("permissions")

\* C33 witness: both requirements are configured and met, and the request
\* is passed on with nothing written.
C33_Witness ==
    /\ call.op = "protect" /\ Verifies
    /\ Required(call.options, "roles") /\ Required(call.options, "permissions")
    /\ call.result.next /\ call.result.res = NoResponse

\* C40 (as claimed): when the outcome is Unauthenticated or Forbidden, the
\* request's user field is as it was before the middleware ran (the request
\* arrives without one).
C40_UserOnlyWhenAuthorized ==
    (call.op = "protect" /\ ~call.result.next) => call.result.user = EmptyObj

----------------------------------------------------------------------------
(* The session of a finished callback, under SpecCallback *)

\* The strings the onSuccess hook returned under k; none when it returned
\* no such field or when no hook is configured.
Granted(result, k) == IF Has(result, k) THEN Range(result[k]) ELSE {}

\* C34: the session token a finished callback set carries the roles and the
\* permissions exactly as the onSuccess hook returned them, and neither
\* field when the hook returned none or there is no hook; whatever
\* protect() is configured to require, its decision on a request with that
\* session is the one those lists give.
C34_SessionCarriesHookRbac ==
    \A p \in Reqs :
        cb[p].pc = "resolved"
        => LET result == cb[p].hookResult
               jwt == cb[p].sessionCookie.value
           IN  /\ \A k \in {"roles", "permissions"} :
                     IF Has(result, k)
                     THEN Has(jwt.payload, k) /\ jwt.payload[k] = result[k]
                     ELSE ~Has(jwt.payload, k)
               /\ \A options \in ProtectOptions :
                     protect(options, Request(jwt, NoToken), epoch(now)).next
                     <=> \A k \in {"roles", "permissions"} :
                            Required(options, k)
                            => Range(options[k]) \cap Granted(result, k) # {}

\* C34 witness: the hook returned roles and permissions, and the session
\* just set passes a middleware that requires both.
C34_Witness ==
    \E p \in Reqs :
        /\ cb[p].pc = "resolved"
        /\ Has(cb[p].hookResult, "roles") /\ Has(cb[p].hookResult, "permissions")
        /\ cb[p].sessionCookie.value.payload["roles"] = <<"admin">>
        /\ protect([roles |-> <<"admin", "editor">>, permissions |-> <<"write:posts">>],
                   Request(cb[p].sessionCookie.value, NoToken), epoch(now)).next

----------------------------------------------------------------------------
(* The cleanup timer, under SpecTimer *)

\* The Map of a limiter l after checks of key at the given times, made one
\* after another with no timer running.
RECURSIVE StoreAfter(_, _, _)
StoreAfter(l, key, times) ==
    IF times = <<>> THEN l.store
    ELSE StoreAfter([l EXCEPT !.store = check(l, key, Head(times)).store],
                    key, Tail(times))

\* The limiter that got the calls on record for key and whose timer never
\* fired.
Untimed(key) ==
    LET mine == ChecksOf(key)
        fresh == createRateLimiter(limiter.windowMs, limiter.max)
    IN  [fresh EXCEPT !.store = StoreAfter(fresh, key, [n \in DOMAIN mine |-> mine[n].at])]

\* The limiter with the largest max, its timer running.
InitTimer == InitRateLimit /\ limiter.max = MaxAllowed

SpecTimer == InitTimer /\ [][NextRateLimit]_vars

\* C35: whenever the timer has fired, the limiter answers the next check of
\* any key, now or at any later time, as the limiter that got the same
\* calls and has no timer does, and the timestamps the two count for the
\* key after that check are the same.
C35_CleanupUnobservable ==
    \A key \in LimiterKeys :
        LET noTimer == Untimed(key)
        IN  \A t \in now..(now + limiter.windowMs) :
                LET timed == check(limiter, key, t)
                    untimed == check(noTimer, key, t)
                IN  /\ timed.allowed = untimed.allowed
                    /\ timed.store[key] = untimed.store[key]

\* C35 witness: the timer removed a key that has been checked since its
\* last reset, and the limiter without a timer still holds the key.
C35_Witness ==
    \E key \in LimiterKeys :
        /\ ChecksOf(key) # <<>>
        /\ key \notin DOMAIN limiter.store
        /\ key \in DOMAIN Untimed(key).store

----------------------------------------------------------------------------
(* The example RedisTokenStore (examples/stores/redis-token-store.js) next
   to the default TokenStore: both get the same calls *)

\* Math.max(1, Math.ceil((tokens.expiresAt - Date.now()) / 1000)): the
\* time to live, in seconds.
redisTtl(expiresAt, t) ==
    LET secs == (expiresAt - t + TicksPerSecond - 1) \div TicksPerSecond
    IN  IF secs > 1 THEN secs ELSE 1

\* The server still holds the key at time t: it was set, and its time to
\* live, if it has one (expireAt 0 stands for none), has not run out.
redisLive(server, key, t) ==
    /\ key \in DOMAIN server
    /\ server[key].expireAt = 0 \/ t <= server[key].expireAt

\* JSON.parse(JSON.stringify(tokens)): the fields that are undefined are
\* gone, null and numbers stay (expiresAt is a number, 0 standing for null).
parseStringified(tokens) ==
    [k \in {x \in DOMAIN tokens : x = "expiresAt" \/ tokens[x] # Undefined}
        |-> tokens[k]]

\* RedisTokenStore.set: the JSON of the TokenSet, with EX ttl when it has
\* an expiresAt.
redisSet(server, key, tokens, t) ==
    LET expireAt == IF tokens["expiresAt"] = 0 THEN 0
                    ELSE t + redisTtl(tokens["expiresAt"], t) * TicksPerSecond
    IN  (key :> [data |-> parseStringified(tokens), expireAt |-> expireAt]) @@ server

\* RedisTokenStore.get: the parsed TokenSet, or null (NoEntry).
redisGet(server, key, t) ==
    IF redisLive(server, key, t) THEN server[key].data ELSE NoEntry

\* RedisTokenStore.has
redisHas(server, key, t) == redisLive(server, key, t)

\* RedisTokenStore.delete: whether a key was removed, and the server after.
redisDelete(server, key, t) ==
    [result |-> redisLive(server, key, t),
     server |-> [k \in DOMAIN server \ {key} |-> server[k]]]

\* RedisTokenStore.isExpired
redisIsExpired(server, key, t) ==
    LET tokens == redisGet(server, key, t)
    IN  IF tokens = NoEntry \/ tokens["expiresAt"] = 0 THEN FALSE
        ELSE t >= tokens["expiresAt"]

\* set(key, tokens) on both stores.
BothSet ==
    /\ Quiet
    /\ \E key \in StoreKeys, tokens \in ExchangeTokenSets :
          /\ tokenStore' = StoreSet(tokenStore, key, tokens, now)
          /\ redis' = redisSet(redis, key, tokens, now)
    /\ UNCHANGED <<config, cb, now, session, minted, call, links, rf, jar, limiter, twitter, emitter>>

\* get(key) on both stores; the default store's entry without its stamp.
BothGet ==
    /\ Quiet
    /\ \E key \in StoreKeys :
          call' = [op |-> "store.get", key |-> key, at |-> now,
                   result |-> Unstamped(StoreGet(tokenStore, key)),
                   other |-> redisGet(redis, key, now)]
    /\ UNCHANGED <<config, cb, tokenStore, now, session, minted, links, rf, jar, limiter, redis, twitter, emitter>>

\* has(key) on both stores.
BothHas ==
    /\ Quiet
    /\ \E key \in StoreKeys :
          call' = [op |-> "store.has", key |-> key, at |-> now,
                   result |-> key \in DOMAIN tokenStore,
                   other |-> redisHas(redis, key, now)]
    /\ UNCHANGED <<config, cb, tokenStore, now, session, minted, links, rf, jar, limiter, redis, twitter, emitter>>

\* delete(key) on both stores.
BothDelete ==
    /\ Quiet
    /\ \E key \in StoreKeys :
          /\ call' = [op |-> "store.delete", key |-> key, at |-> now,
                      result |-> key \in DOMAIN tokenStore,
                      other |-> redisDelete(redis, key, now).result]
          /\ tokenStore' = StoreDelete(tokenStore, key)
          /\ redis' = redisDelete(redis, key, now).server
    /\ UNCHANGED <<config, cb, now, session, minted, links, rf, jar, limiter, twitter, emitter>>

\* isExpired(key) on both stores.
BothIsExpired ==
    /\ Quiet
    /\ \E key \in StoreKeys :
          call' = [op |-> "store.isExpired", key |-> key, at |-> now,
                   result |-> isExpired(tokenStore, key, now),
                   other |-> redisIsExpired(redis, key, now)]
    /\ UNCHANGED <<config, cb, tokenStore, now, session, minted, links, rf, jar, limiter, redis, twitter, emitter>>

NextStores ==
    Tick \/ BothSet \/ BothGet \/ BothHas \/ BothDelete \/ BothIsExpired \/ Return

SpecStores == InitTokenStore /\ [][NextStores]_vars

\* C36 (as claimed): whatever calls the two stores got, and whenever, a
\* get, has, delete or isExpired returns on the Redis store what it returns
\* on the default store.
C36_RedisDropIn ==
    call.op \in {"store.get", "store.has", "store.delete", "store.isExpired"}
    => call.other = call.result

----------------------------------------------------------------------------
(* A refresh with a login of the same user completing meanwhile: the
   refresh awaits the token endpoint, and the event loop runs the callback
   route of another request *)

\* The user whose logins and refreshes overlap.
RaceUser == "u1"

\* handleCallback's tokenStore.set(key, tokens) of a login of that user
\* that completes while no refresh runs or while one awaits its exchange.
CallbackStores ==
    /\ call = NoCall
    /\ rf.pc \in {"idle", "exchange"}
    /\ \E tokens \in ExchangeTokenSets :
          tokenStore' = StoreSet(tokenStore, Key("google", RaceUser), tokens, now)
    /\ UNCHANGED <<config, cb, now, session, minted, call, links, rf, jar, limiter, redis, twitter, emitter>>

\* One refresh call, from its start to its return.
NextRace ==
    Tick \/ CallbackStores \/ GetValidTokens \/ ForceRefresh \/ RefreshSettles

SpecRace == InitTokenStore /\ [][NextRace]_vars

\* C37 (as claimed): when a refresh ends by removing the entry of its key,
\* the entry removed is the one the refresh started from; an entry written
\* since by a callback is not removed.
C37_FailureDeletesOwnEntry ==
    [][(/\ rf.pc = "exchange"
        /\ rf.key \in DOMAIN tokenStore
        /\ rf.key \notin DOMAIN tokenStore')
       => tokenStore[rf.key] = rf.current]_vars

----------------------------------------------------------------------------
(* The Twitter provider (providers/twitter.js): logins of several users
   through one TwitterProvider instance *)

\* The logins in progress, one per browser, and the state values
\* generateState gives them.
TwitterFlows == {"f1", "f2", "f3"}
TwitterStates == {"s1", "s2", "s3"}

\* TwitterProvider.getAuthorizationURL(callbackURL, state), the later of the
\* two definitions in the class: the query of the URL, and _lastState after.
twitterAuthorizationURL(state) ==
    [params |-> [response_type |-> "code", state |-> state,
                 code_challenge |-> state, code_challenge_method |-> "plain"],
     lastState |-> state]

\* The body TwitterProvider.exchangeCode(code, callbackURL) posts.
twitterExchangeBody(lastState, code) ==
    [code |-> code, grant_type |-> "authorization_code",
     code_verifier |-> IF lastState = "" THEN code ELSE lastState]

\* handleLogin for twitter: a browser is redirected to the authorization
\* URL, with a state no login in progress has.
TwitterLogin ==
    \E f \in TwitterFlows, state \in TwitterStates :
        /\ IF f \in DOMAIN twitter.flows THEN twitter.flows[f].pc = "exchanged" ELSE TRUE
        /\ \A g \in DOMAIN twitter.flows \ {f} : twitter.flows[g].state # state
        /\ LET url == twitterAuthorizationURL(state)
           IN  twitter' = [lastState |-> url.lastState,
                           flows |-> (f :> [pc |-> "authorizing",
                                            state |-> state,
                                            challenge |-> url.params.code_challenge,
                                            verifier |-> ""])
                                     @@ twitter.flows]
        /\ UNCHANGED <<config, cb, tokenStore, now, session, minted, call, links, rf, jar, limiter, redis, emitter>>

\* The browser comes back with its code, and handleCallback calls
\* provider.exchangeCode(code, callbackURL).
TwitterExchange ==
    \E f \in DOMAIN twitter.flows :
        /\ twitter.flows[f].pc = "authorizing"
        /\ LET body == twitterExchangeBody(twitter.lastState, <<"code-of", f>>)
           IN  twitter' = [twitter EXCEPT !.flows[f].pc = "exchanged",
                                          !.flows[f].verifier = body.code_verifier]
        /\ UNCHANGED <<config, cb, tokenStore, now, session, minted, call, links, rf, jar, limiter, redis, emitter>>

NextTwitter == TwitterLogin \/ TwitterExchange

SpecTwitter == InitTokenStore /\ [][NextTwitter]_vars

\* C38 (as claimed): the code_verifier a login's exchangeCode sends is the
\* code_challenge of that login's authorization request, whatever other
\* logins ran in between.
C38_VerifierIsOwnChallenge ==
    \A f \in DOMAIN twitter.flows :
        twitter.flows[f].pc = "exchanged"
        => twitter.flows[f].verifier = twitter.flows[f].challenge

----------------------------------------------------------------------------
(* Listeners (AuthSnap.on, AuthSnap.emit over Node's EventEmitter) *)

\* The events listened to, what a listener does when invoked, and the most
\* listeners subscribed to one event.
EmittedEvents == {"logout", "error"}
ListenerKinds == {"returns", "throws"}
MaxListeners == 3

\* The listeners of an event, in the order they subscribed.
Subscribed(em, event) == IF event \in DOMAIN em THEN em[event] ELSE <<>>

\* EventEmitter.emit(event, data): the listeners are invoked in order and
\* the first exception propagates out of emit; 'error' with no listener
\* throws.  invoked[i] counts the invocations of listener i.
emitterEmit(em, event) ==
    LET listeners == Subscribed(em, event)
        throwers == {i \in DOMAIN listeners : listeners[i] = "throws"}
        last == IF throwers = {} THEN Len(listeners)
                ELSE CHOOSE i \in throwers : \A j \in throwers : i <= j
    IN  [threw |-> throwers # {} \/ (event = "error" /\ listeners = <<>>),
         invoked |-> [i \in DOMAIN listeners |-> IF i <= last THEN 1 ELSE 0]]

\* AuthSnap.emit(event, data): the emitter's emit inside try/catch.
emitTo(em, event) ==
    [result |-> "returned", invoked |-> emitterEmit(em, event).invoked]

\* authSnap.on(event, listener)
On ==
    /\ call = NoCall
    /\ \E event \in EmittedEvents, kind \in ListenerKinds :
          /\ Len(Subscribed(emitter, event)) < MaxListeners
          /\ emitter' = (event :> Append(Subscribed(emitter, event), kind)) @@ emitter
    /\ UNCHANGED <<config, cb, tokenStore, now, session, minted, call, links, rf, jar, limiter, redis, twitter>>

\* authSnap.emit(event, data), as handleLogout and handleCallbackError call
\* it.
Emit ==
    /\ call = NoCall
    /\ \E event \in EmittedEvents :
          call' = [op |-> "emit", event |-> event,
                   listeners |-> Subscribed(emitter, event),
                   result |-> emitTo(emitter, event)]
    /\ UNCHANGED <<config, cb, tokenStore, now, session, minted, links, rf, jar, limiter, redis, twitter, emitter>>

NextEvents == On \/ Emit \/ Return

SpecEvents == InitTokenStore /\ [][NextEvents]_vars

\* C39 (as claimed): in an emission every listener subscribed to the event
\* is invoked exactly once, whether or not a listener before it threw.
C39_EveryListenerInvoked ==
    call.op = "emit"
    => \A i \in DOMAIN call.listeners : call.result.invoked[i] = 1

====
